---- MODULE Spec2Model ----
(***************************************************************************)
(* Model of the transit scanner of astromind-backend (src/scanner.py) and  *)
(* of the engine helpers it calls (src/engine.py).                         *)
(*                                                                         *)
(* Angles are integers in thousandths of a degree, speeds are integers in  *)
(* thousandths of a degree per day, instants are integers in hours of      *)
(* Julian Day (24 * jd), dates are triples <<year, month, day>>.           *)
(***************************************************************************)
EXTENDS Integers, Sequences, FiniteSets, TLC

VARIABLES
    env,          \* the ephemeris provider's world: what it can answer
    sky,          \* the provider's answers so far, per queried midnight
    pc,           \* position of scan_period: "idle", "loop", "done"
    prev_speeds,  \* TransitScanner.prev_speeds (instance attribute)
    prev_signs,   \* scan_period's local prev_signs
    current_date, \* scan_period's local current_date
    end_dt,       \* scan_period's local end_dt
    start_dt,     \* scan_period's local start_dt
    natal_chart,  \* scan_period's argument natal_chart
    partner_chart,\* scan_period's argument partner_chart
    events,       \* scan_period's local events, then its return value
    days,         \* history: one record per executed iteration of the loop
    second,       \* a second scan_period call on the same instance: its locals
    call          \* a call of a function of the engines: arguments and result

vars == <<env, sky, pc, prev_speeds, prev_signs, current_date, end_dt,
          start_dt, natal_chart, partner_chart, events, days, second, call>>

-----------------------------------------------------------------------------
(* Units *)

Deg(x) == x * 1000

FullCircle == Deg(360)

Abs(x) == IF x < 0 THEN 0 - x ELSE x

Min2(a, b) == IF a <= b THEN a ELSE b

\* Python's round(): the integer nearest to num/den, ties to the even one.
PyRound(num, den) ==
    LET q == num \div den
        r == num % den
    IN  IF 2 * r < den THEN q
        ELSE IF 2 * r > den THEN q + 1
        ELSE IF q % 2 = 0 THEN q ELSE q + 1

\* round(x, 2) of a value held in thousandths, again in thousandths.
Round2(x) == 10 * PyRound(x, 10)

\* round(x, 4) of a value held in thousandths: four decimals keep all three.
Round4(x) == PyRound(x * 10, 10)

-----------------------------------------------------------------------------
(* Calendar: datetime, timedelta(days=1), strftime("%Y-%m-%d"), swe.julday *)

IsLeap(y) == (y % 4 = 0 /\ y % 100 # 0) \/ y % 400 = 0

DaysInMonth(y, m) ==
    IF m = 2 THEN (IF IsLeap(y) THEN 29 ELSE 28)
    ELSE IF m \in {4, 6, 9, 11} THEN 30 ELSE 31

\* date + timedelta(days=1)
AddDay(d) ==
    IF d[3] < DaysInMonth(d[1], d[2]) THEN <<d[1], d[2], d[3] + 1>>
    ELSE IF d[2] < 12 THEN <<d[1], d[2] + 1, 1>>
    ELSE <<d[1] + 1, 1, 1>>

\* date - timedelta(days=1)
SubDay(d) ==
    IF d[3] > 1 THEN <<d[1], d[2], d[3] - 1>>
    ELSE IF d[2] > 1 THEN <<d[1], d[2] - 1, DaysInMonth(d[1], d[2] - 1)>>
    ELSE <<d[1] - 1, 12, 31>>

\* The order of datetime values, which is also the order of the strings
\* strftime("%Y-%m-%d") gives for four-digit years.
DateLess(a, b) ==
    \/ a[1] < b[1]
    \/ a[1] = b[1] /\ a[2] < b[2]
    \/ a[1] = b[1] /\ a[2] = b[2] /\ a[3] < b[3]

\* DateLeq, were the last day left out
DateStrictlyBefore(a, b) == a # b /\ DateLess(a, b)

DateLeq(a, b) == a = b \/ DateLess(a, b)

\* Julian Day Number of the civil day (Gregorian calendar).
JulianDayNumber(d) ==
    LET a  == IF d[2] <= 2 THEN 1 ELSE 0
        yy == d[1] + 4800 - a
        mm == d[2] + 12 * a - 3
    IN  d[3] + ((153 * mm + 2) \div 5) + 365 * yy + (yy \div 4)
          - (yy \div 100) + (yy \div 400) - 32045

\* _datetime_to_jd of a midnight datetime, in hours: 24 * swe.julday(y, m, d, 0.0)
datetime_to_jd(d) == 24 * JulianDayNumber(d) - 12

OneDay == 24

-----------------------------------------------------------------------------
(* Engine helpers *)

signs == <<"Aries", "Taurus", "Gemini", "Cancer", "Leo", "Virgo", "Libra",
           "Scorpio", "Sagittarius", "Capricorn", "Aquarius", "Pisces">>

RECURSIVE AddWhileNegative(_)
AddWhileNegative(angle) ==
    IF angle < 0 THEN AddWhileNegative(angle + FullCircle) ELSE angle

RECURSIVE SubWhileFull(_)
SubWhileFull(angle) ==
    IF angle >= FullCircle THEN SubWhileFull(angle - FullCircle) ELSE angle

\* _normalize_angle, were the second loop left out
NormalizeNegativeOnly(angle) == AddWhileNegative(angle)

\* TransitScanner._normalize_angle; None raises (TypeError on None < 0).
normalize_angle(angle) == SubWhileFull(AddWhileNegative(angle))

\* _decimal_to_dms, were the correction of 60 minutes left out
DmsUncorrected(longitude) ==
    [sign |-> signs[(SubWhileFull(AddWhileNegative(longitude)) \div Deg(30)) + 1],
     deg  |-> (SubWhileFull(AddWhileNegative(longitude)) % Deg(30)) \div Deg(1),
     min  |-> PyRound((SubWhileFull(AddWhileNegative(longitude)) % Deg(1)) * 60,
                      Deg(1))]

\* AstrologyEngine._decimal_to_dms: [sign, deg, min]; "str" is the three together.
decimal_to_dms(longitude) ==
    LET lon   == SubWhileFull(AddWhileNegative(longitude))
        sign_index == lon \div Deg(30)
        degrees_in_sign == lon % Deg(30)
        deg0  == degrees_in_sign \div Deg(1)
        min0  == PyRound((degrees_in_sign - deg0 * Deg(1)) * 60, Deg(1))
        carry == min0 >= 60
        deg1  == IF carry THEN deg0 + 1 ELSE deg0
        roll  == carry /\ deg1 >= 30
        idx   == IF roll THEN (sign_index + 1) % 12 ELSE sign_index
    IN  [sign |-> signs[idx + 1],
         deg  |-> IF roll THEN 0 ELSE deg1,
         min  |-> IF carry THEN 0 ELSE min0]

-----------------------------------------------------------------------------
(* Class attributes of TransitScanner: dicts, in their declared order *)

RETROGRADE_PLANETS == <<"Mercury", "Venus", "Mars", "Jupiter", "Saturn",
                        "Uranus", "Neptune", "Pluto">>

TRANSIT_PLANETS == <<"Mars", "Jupiter", "Saturn", "Uranus", "Neptune", "Pluto">>

INGRESS_PLANETS == <<"Sun", "Moon", "Mercury", "Venus", "Mars", "Jupiter",
                     "Saturn", "Uranus", "Neptune", "Pluto">>

ASPECTS == << <<"Conjunction", Deg(0)>>, <<"Sextile", Deg(60)>>,
              <<"Square", Deg(90)>>, <<"Trine", Deg(120)>>,
              <<"Opposition", Deg(180)>> >>

MAX_ORB_APPLYING == 1500

MAX_ORB_SEPARATING == 1000

natal_targets == <<"Sun", "Moon", "Mercury", "Venus", "Mars", "Jupiter",
                   "Saturn", "Uranus", "Neptune", "Pluto">>

Range(s) == {s[i] : i \in DOMAIN s}

Bodies == Range(INGRESS_PLANETS)

\* d[k] = v on a dict held as a function
DictSet(d, k, v) ==
    [x \in DOMAIN d \cup {k} |-> IF x = k THEN v ELSE d[x]]

-----------------------------------------------------------------------------
(* The ephemeris provider (swisseph).  A query is deterministic: asked     *)
(* twice for the same instant and body it answers the same.  s is the map  *)
(* from the midnights queried so far to the provider's answer per body:    *)
(* the body's longitude and speed, and whether calc_ut answers or raises.  *)

\* An exception leaving a call
Raise == [raised |-> TRUE]

\* TransitScanner._get_planet_position: (longitude, speed), or RuntimeError.
get_planet_position(s, jd, planet) ==
    IF s[jd][planet].ok
    THEN [raised |-> FALSE,
          longitude |-> s[jd][planet].lon, speed |-> s[jd][planet].speed]
    ELSE Raise

\* The first instant of `times` at or after `anchor`, as swe.*_eclipse_when*
\* reports it: [retflag, tret], or an exception past the ephemeris' range.
EclipseWhen(e, anchor) ==
    LET later == {t \in e.times : t >= anchor}
    IN  IF e.raises \/ later = {} THEN Raise
        ELSE [raised |-> FALSE, retflag |-> e.retflag,
              tret |-> CHOOSE t \in later : \A u \in later : t <= u]

\* swe.sol_eclipse_when_loc(jd - 1, FLG_SWIEPH, lat, lon, 0, 0)
sol_eclipse_when_loc(anchor) == EclipseWhen(env.solar, anchor)

\* swe.lun_eclipse_when(jd - 1, FLG_SWIEPH, 0)
lun_eclipse_when(anchor) == EclipseWhen(env.lunar, anchor)

\* JD 2440587.5 = 1970-01-01 00:00:00 UTC, in hours
UnixEpochJd == 24 * 2440587 + 12

\* datetime.fromtimestamp((eclipse_jd - 2440587.5) * 86400, tz=None).date(),
\* as days since 1970-01-01 on the host's clock (env.tz hours east of UTC).
EclipseDateOrdinal(eclipse_jd) == (eclipse_jd - UnixEpochJd + env.tz) \div 24

\* date.date(), as days since 1970-01-01
DateOrdinal(date) == (datetime_to_jd(date) - UnixEpochJd) \div 24

-----------------------------------------------------------------------------
(* Events.  The f-strings "event" and "description" are held as the tuple  *)
(* of their parts, "position" (pos_data["str"]) as the dms record.         *)

RetrogradeEvent(date, planet_name, direction, verb, pos_data) ==
    [date |-> date, type |-> "RETROGRADE", planet |-> planet_name,
     direction |-> direction,
     event |-> <<planet_name, verb, pos_data.sign>>,
     description |-> <<planet_name, verb, pos_data.sign>>,
     position |-> pos_data]

SunMoonEvent(date, type, what, pos_data) ==
    [date |-> date, type |-> type, planet |-> "Sun/Moon",
     event |-> <<what, pos_data.sign>>, position |-> pos_data]

IngressEvent(date, planet_name, pos_data) ==
    [date |-> date, type |-> "INGRESS", planet |-> planet_name,
     sign |-> pos_data.sign,
     event |-> <<planet_name, "enters", pos_data.sign>>,
     description |-> <<planet_name, "enters", pos_data.sign>>,
     position |-> pos_data]

-----------------------------------------------------------------------------
(* TransitScanner._detect_retrograde_stations.  The iterations of a loop   *)
(* over the bodies are independent of each other (each reads and writes    *)
(* its own body's entry only), so a loop is the sequence of its            *)
(* iterations' results: what each appends, in order, and what each stores. *)

\* The dict d after a loop over `names` whose i-th iteration stores
\* r[i].stored[1] under names[i], or nothing when r[i].stored is <<>>.
StoreAll(d, names, r) ==
    LET written == {i \in DOMAIN names : r[i].stored # <<>>}
    IN  [k \in DOMAIN d \cup {names[i] : i \in written} |->
            IF \E i \in written : names[i] = k
            THEN r[CHOOSE i \in written : names[i] = k].stored[1]
            ELSE d[k]]

\* What the first n iterations append, in order
RECURSIVE Appended(_, _)
Appended(r, n) == IF n = 0 THEN <<>> ELSE Appended(r, n - 1) \o r[n].events

\* RetrogradeStep, were a stored speed of zero taken for direct motion
RetrogradeStepFromZero(s, date, speeds, planet_name) ==
    LET jd == datetime_to_jd(date)
        p  == get_planet_position(s, jd, planet_name)
    IN  IF p.raised THEN [events |-> <<>>, stored |-> <<>>]  \* except: continue
        ELSE
          LET speed == p.speed
              known == planet_name \in DOMAIN speeds
              prev_speed == speeds[planet_name]
              pos_data == decimal_to_dms(p.longitude)
          IN  [events |->
                 IF known /\ prev_speed >= 0 /\ speed < 0
                 THEN <<RetrogradeEvent(date, planet_name, "retrograde",
                                        "turns Retrograde in", pos_data)>>
                 ELSE IF known /\ prev_speed < 0 /\ speed > 0
                 THEN <<RetrogradeEvent(date, planet_name, "direct",
                                        "turns Direct in", pos_data)>>
                 ELSE <<>>,
               stored |-> <<speed>>]

\* One iteration of the loop over RETROGRADE_PLANETS (the body of the try):
\* the events appended and the speed stored (<<>> when the query raised).
RetrogradeStep(s, date, speeds, planet_name) ==
    LET jd == datetime_to_jd(date)
        p  == get_planet_position(s, jd, planet_name)
    IN  IF p.raised THEN [events |-> <<>>, stored |-> <<>>]  \* except: continue
        ELSE
          LET speed == p.speed
              known == planet_name \in DOMAIN speeds
              prev_speed == speeds[planet_name]
              pos_data == decimal_to_dms(p.longitude)
          IN  [events |->
                 IF known /\ prev_speed > 0 /\ speed < 0
                 THEN <<RetrogradeEvent(date, planet_name, "retrograde",
                                        "turns Retrograde in", pos_data)>>
                 ELSE IF known /\ prev_speed < 0 /\ speed > 0
                 THEN <<RetrogradeEvent(date, planet_name, "direct",
                                        "turns Direct in", pos_data)>>
                 ELSE <<>>,
               stored |-> <<speed>>]

\* The first n iterations of the loop over RETROGRADE_PLANETS
RECURSIVE RetrogradeSteps(_, _, _, _)
RetrogradeSteps(s, date, speeds, n) ==
    IF n = 0 THEN <<>>
    ELSE Append(RetrogradeSteps(s, date, speeds, n - 1),
                RetrogradeStep(s, date, speeds, RETROGRADE_PLANETS[n]))

RetrogradeResult(speeds, r) ==
    [prev_speeds |-> StoreAll(speeds, RETROGRADE_PLANETS, r),
     events |-> Appended(r, Len(r))]

\* [prev_speeds, events]: self.prev_speeds afterwards and the events appended
detect_retrograde_stations(s, date, speeds) ==
    RetrogradeResult(speeds,
        RetrogradeSteps(s, date, speeds, Len(RETROGRADE_PLANETS)))

-----------------------------------------------------------------------------
(* TransitScanner._detect_lunations_and_eclipses: the events it appends    *)

\* EclipseNear, were only an eclipse of the same date taken
EclipseSameDate(ret, date) ==
    /\ ~ret.raised
    /\ ret.retflag >= 0
    /\ Abs(EclipseDateOrdinal(ret.tret) - DateOrdinal(date)) < 1

\* The eclipse check of one window: TRUE when the ECLIPSE event is emitted.
\* A raising search is swallowed by the bare except.
EclipseNear(ret, date) ==
    /\ ~ret.raised
    /\ ret.retflag >= 0
    /\ Abs(EclipseDateOrdinal(ret.tret) - DateOrdinal(date)) <= 1

detect_lunations_and_eclipses(s, date) ==
    LET jd   == datetime_to_jd(date)
        sun  == get_planet_position(s, jd, "Sun")
        moon == get_planet_position(s, jd, "Moon")
    IN  IF sun.raised \/ moon.raised THEN <<>>   \* outer except: print
        ELSE
          LET separation == Min2(Abs(sun.longitude - moon.longitude),
                                 FullCircle - Abs(sun.longitude - moon.longitude))
              sun_pos  == decimal_to_dms(sun.longitude)
              moon_pos == decimal_to_dms(moon.longitude)
          IN  IF separation < Deg(13)
              THEN IF EclipseNear(sol_eclipse_when_loc(jd - OneDay), date)
                   THEN <<SunMoonEvent(date, "ECLIPSE", "Solar Eclipse in", sun_pos)>>
                   ELSE <<SunMoonEvent(date, "LUNATION", "New Moon in", sun_pos)>>
              ELSE IF separation > Deg(167)
              THEN IF EclipseNear(lun_eclipse_when(jd - OneDay), date)
                   THEN <<SunMoonEvent(date, "ECLIPSE", "Lunar Eclipse in", moon_pos)>>
                   ELSE <<SunMoonEvent(date, "LUNATION", "Full Moon in", moon_pos)>>
              ELSE <<>>

-----------------------------------------------------------------------------
(* The INGRESS loop of scan_period *)

\* IngressStep, were the index stored only on a day without an event
IngressStepKeepsIndex(s, date, sgn, planet_name) ==
    LET p == get_planet_position(s, datetime_to_jd(date), planet_name)
    IN  IF p.raised THEN [events |-> <<>>, stored |-> <<>>]   \* except: print
        ELSE
          LET normalized == normalize_angle(p.longitude)
              current_sign_index == normalized \div Deg(30)
              prev_sign_index ==
                  IF planet_name \in DOMAIN sgn
                  THEN sgn[planet_name] ELSE current_sign_index
          IN  [events |->
                 IF current_sign_index # prev_sign_index
                 THEN <<IngressEvent(date, planet_name,
                                     decimal_to_dms(normalized))>>
                 ELSE <<>>,
               stored |-> IF current_sign_index # prev_sign_index
                          THEN <<>> ELSE <<current_sign_index>>]

\* One iteration of the loop over INGRESS_PLANETS (the body of the try):
\* the events appended and the sign index stored (<<>> when the query raised).
IngressStep(s, date, sgn, planet_name) ==
    LET p == get_planet_position(s, datetime_to_jd(date), planet_name)
    IN  IF p.raised THEN [events |-> <<>>, stored |-> <<>>]   \* except: print
        ELSE
          LET normalized == normalize_angle(p.longitude)
              current_sign_index == normalized \div Deg(30)
              prev_sign_index ==
                  IF planet_name \in DOMAIN sgn
                  THEN sgn[planet_name] ELSE current_sign_index
          IN  [events |->
                 IF current_sign_index # prev_sign_index
                 THEN <<IngressEvent(date, planet_name,
                                     decimal_to_dms(normalized))>>
                 ELSE <<>>,
               stored |-> <<current_sign_index>>]

\* The first n iterations of the loop over INGRESS_PLANETS
RECURSIVE IngressSteps(_, _, _, _)
IngressSteps(s, date, sgn, n) ==
    IF n = 0 THEN <<>>
    ELSE Append(IngressSteps(s, date, sgn, n - 1),
                IngressStep(s, date, sgn, INGRESS_PLANETS[n]))

IngressResult(sgn, r) ==
    [prev_signs |-> StoreAll(sgn, INGRESS_PLANETS, r),
     events |-> Appended(r, Len(r))]

\* [prev_signs, events]: prev_signs afterwards and the events appended
detect_ingresses(s, date, sgn) ==
    IngressResult(sgn, IngressSteps(s, date, sgn, Len(INGRESS_PLANETS)))

-----------------------------------------------------------------------------
(* TransitScanner._calculate_aspect_exact.  An Optional value is a         *)
(* sequence: <<>> is None, <<x>> is x.                                      *)

\* The shortest distance on the circle between two normalized angles
MinorArc(a, b) == Min2(Abs(a - b), FullCircle - Abs(a - b))

\* The match an iteration of the loop over ASPECTS records
AspectMatch(aspect, orb, is_applying) ==
    [aspect |-> aspect[1], angle_deg |-> aspect[2],
     orb |-> Round4(orb), is_applying |-> is_applying]

\* One iteration of the loop over ASPECTS, given its orb and is_applying
\* (FALSE when there is no previous position): the new best_match.
AspectChoice(aspect, orb, is_applying, best_match) ==
    IF /\ orb <= (IF is_applying THEN MAX_ORB_APPLYING ELSE MAX_ORB_SEPARATING)
       /\ (best_match = <<>> \/ orb < best_match[1].orb)
    THEN <<AspectMatch(aspect, orb, is_applying)>>
    ELSE best_match

\* IsApplying, were an equal orb taken for applying
IsApplyingOrEqual(n, prev_transit_long, aspect_angle, orb) ==
    /\ prev_transit_long # <<>>
    /\ Abs(MinorArc(normalize_angle(prev_transit_long[1]), n) - aspect_angle) >= orb

\* prev_orb > orb, when there is a previous position
IsApplying(n, prev_transit_long, aspect_angle, orb) ==
    /\ prev_transit_long # <<>>
    /\ Abs(MinorArc(normalize_angle(prev_transit_long[1]), n) - aspect_angle) > orb

AspectStep(diff, n, prev_transit_long, best_match, aspect, orb) ==
    AspectChoice(aspect, orb, IsApplying(n, prev_transit_long, aspect[2], orb),
                 best_match)

RECURSIVE AspectLoop(_, _, _, _)
AspectLoop(diff, n, prev_transit_long, i) ==
    IF i = 0 THEN <<>>
    ELSE AspectStep(diff, n, prev_transit_long,
                    AspectLoop(diff, n, prev_transit_long, i - 1),
                    ASPECTS[i], Abs(diff - ASPECTS[i][2]))

AspectOfNormalized(t, n, prev_transit_long) ==
    AspectLoop(MinorArc(t, n), n, prev_transit_long, Len(ASPECTS))

\* Called with numbers only: a None longitude raises before this point.
calculate_aspect_exact(transit_long, natal_long, prev_transit_long) ==
    AspectOfNormalized(normalize_angle(transit_long),
                       normalize_angle(natal_long), prev_transit_long)

-----------------------------------------------------------------------------
(* TransitScanner._find_house_for_position.  A chart is a dict (function); *)
(* an ordered dict of houses is a sequence of <<name, cusp>> pairs.        *)

HouseNames == <<"House1", "House2", "House3", "House4", "House5", "House6",
                "House7", "House8", "House9", "House10", "House11", "House12">>

HouseDigits == <<"1", "2", "3", "4", "5", "6", "7", "8", "9", "10", "11", "12">>

\* house_name.replace("House", "")
StripHouse(house_name) ==
    HouseDigits[CHOOSE i \in DOMAIN HouseNames : HouseNames[i] = house_name]

\* house_list.sort(key=lambda x: x[1]): stable, by insertion
RECURSIVE InsertByCusp(_, _)
InsertByCusp(sorted, x) ==
    IF sorted = <<>> THEN <<x>>
    ELSE IF sorted[Len(sorted)][2] <= x[2] THEN Append(sorted, x)
    ELSE Append(InsertByCusp(SubSeq(sorted, 1, Len(sorted) - 1), x),
                sorted[Len(sorted)])

RECURSIVE SortByCusp(_, _)
SortByCusp(list, n) ==
    IF n = 0 THEN <<>> ELSE InsertByCusp(SortByCusp(list, n - 1), list[n])

\* natal_chart.get("angles", {}).get("houses", {})
AnglesHouses(chart) ==
    IF "angles" \in DOMAIN chart /\ "houses" \in DOMAIN chart["angles"]
    THEN chart["angles"]["houses"] ELSE <<>>

find_house_for_position(longitude, chart) ==
    LET houses == AnglesHouses(chart)
        house_list == SortByCusp(houses, Len(houses))
        n == Len(house_list)
        Hit(i) ==
            LET house_cusp == house_list[i][2]
                next_house_cusp == house_list[(i % n) + 1][2]
            IN  \/ house_cusp <= longitude /\ longitude < next_house_cusp
                \/ /\ next_house_cusp < house_cusp
                   /\ (longitude >= house_cusp \/ longitude < next_house_cusp)
        hits == {i \in 1..n : Hit(i)}
    IN  IF houses = <<>> THEN "Unknown"
        ELSE IF hits = {} THEN "1"
        ELSE StripHouse(house_list[CHOOSE i \in hits : \A j \in hits : i <= j][1])

-----------------------------------------------------------------------------
(* TransitScanner._detect_transits_to_natal.                               *)
(* chart["planets"][name]["longitude"] is Optional: <<>> is None.          *)

TransitEvent(date, target, transit_planet_name, natal_planet_name, aspect_info, transit_long, natal_long, house_impact) ==
    [date |-> date, type |-> "TRANSIT", target |-> target,
     planet |-> transit_planet_name, natal_planet |-> natal_planet_name,
     aspect |-> aspect_info.aspect, angle_deg |-> aspect_info.angle_deg,
     orb |-> Round2(aspect_info.orb), is_applying |-> aspect_info.is_applying,
     transit_position |-> decimal_to_dms(transit_long),
     natal_position |-> decimal_to_dms(natal_long),
     house_impact |-> house_impact,
     description |-> <<"Transit", transit_planet_name, aspect_info.aspect,
                       "NATAL", natal_planet_name, "House", house_impact>>]

\* natal_chart.get("planets", {})
NatalPlanets(chart) ==
    IF "planets" \in DOMAIN chart THEN chart["planets"] ELSE <<>>

\* The event of one natal target, for the aspect found (<<>>: none)
NatalEvent(date, chart, target, transit_planet_name, transit_long, natal_planet_name, natal_long, aspect_info) ==
    IF aspect_info = <<>> THEN <<>>
    ELSE <<TransitEvent(date, target, transit_planet_name, natal_planet_name,
                        aspect_info[1], transit_long, natal_long,
                        find_house_for_position(transit_long, chart))>>

\* One iteration of the loop over natal_targets: the events appended.
NatalStep(date, chart, target, transit_planet_name, transit_long, prev_transit_long, natal_planet_name) ==
    IF natal_planet_name \notin DOMAIN NatalPlanets(chart) THEN <<>>
    ELSE NatalEvent(date, chart, target, transit_planet_name, transit_long,
            natal_planet_name,
            NatalPlanets(chart)[natal_planet_name]["longitude"][1],
            calculate_aspect_exact(transit_long,
                NatalPlanets(chart)[natal_planet_name]["longitude"][1],
                <<prev_transit_long>>))

\* The iteration of the loop over natal_targets that raises, if any: the
\* first target in the chart whose longitude is None
\* (_normalize_angle(None): TypeError), else one past the last target.
FirstRaising(chart) ==
    LET bad == {i \in DOMAIN natal_targets :
                  /\ natal_targets[i] \in DOMAIN NatalPlanets(chart)
                  /\ NatalPlanets(chart)[natal_targets[i]]["longitude"] = <<>>}
    IN  IF bad = {} THEN Len(natal_targets) + 1
        ELSE CHOOSE i \in bad : \A j \in bad : i <= j

\* What the first n iterations of the loop over natal_targets append; the
\* loop is left at iteration `stop`, and what was appended before it stays.
RECURSIVE NatalSteps(_, _, _, _, _, _, _, _)
NatalSteps(date, chart, target, transit_planet_name, transit_long, prev_transit_long, stop, n) ==
    IF n = 0 THEN <<>>
    ELSE NatalSteps(date, chart, target, transit_planet_name, transit_long,
                    prev_transit_long, stop, n - 1)
         \o (IF n < stop
             THEN NatalStep(date, chart, target, transit_planet_name,
                            transit_long, prev_transit_long, natal_targets[n])
             ELSE <<>>)

\* The body of the try, once both positions are there
TransitBody(date, chart, target, transit_planet_name, now, prev) ==
    IF now.raised \/ prev.raised THEN <<>>   \* except: print, continue
    ELSE NatalSteps(date, chart, target, transit_planet_name, now.longitude,
                    prev.longitude, FirstRaising(chart), Len(natal_targets))

\* One iteration of the loop over TRANSIT_PLANETS: the events appended.
TransitStep(s, date, chart, target, transit_planet_name) ==
    TransitBody(date, chart, target, transit_planet_name,
        get_planet_position(s, datetime_to_jd(date), transit_planet_name),
        get_planet_position(s, datetime_to_jd(date) - OneDay,
                            transit_planet_name))

RECURSIVE TransitSteps(_, _, _, _, _)
TransitSteps(s, date, chart, target, n) ==
    IF n = 0 THEN <<>>
    ELSE TransitSteps(s, date, chart, target, n - 1)
         \o TransitStep(s, date, chart, target, TRANSIT_PLANETS[n])

\* detect_transits_to_natal, were every event tagged "User"
detect_transits_untagged(s, date, chart, target) ==
    TransitSteps(s, date, chart, "User", Len(TRANSIT_PLANETS))

\* The events appended
detect_transits_to_natal(s, date, chart, target) ==
    TransitSteps(s, date, chart, target, Len(TRANSIT_PLANETS))

-----------------------------------------------------------------------------
(* events.sort(key=lambda x: (x.get("date", ""), x.get("type", "")))       *)

\* The five type strings in the order of Python's string comparison
TypeOrder == <<"ECLIPSE", "INGRESS", "LUNATION", "RETROGRADE", "TRANSIT">>

TypeRank(type) == CHOOSE i \in DOMAIN TypeOrder : TypeOrder[i] = type

\* key(a) <= key(b)
KeyLeq(a, b) ==
    \/ DateLess(a.date, b.date)
    \/ a.date = b.date /\ TypeRank(a.type) <= TypeRank(b.type)

\* key(a) < key(b): tuples of a date string and a type string
KeyLess(a, b) ==
    \/ DateLess(a.date, b.date)
    \/ a.date = b.date /\ TypeRank(a.type) < TypeRank(b.type)

\* list.sort is stable: equal keys keep their order.  (SortSeq moves an
\* element before those that are not before it by the order it is given:
\* with a strict order, equal keys stay as they were.)
SortEvents(list) == SortSeq(list, KeyLess)

-----------------------------------------------------------------------------
(* The provider's world.  env.dom[b] bounds what the provider can answer   *)
(* for body b: its longitude on the first midnight queried (lon0), its     *)
(* speed (the longitude moves by the day's speed from one midnight to the  *)
(* next), and whether calc_ut answers (ok).  A body keeps moving on a day  *)
(* the query fails.                                                        *)

BodyAnswers(s, jd, b) ==
    IF jd - OneDay \in DOMAIN s
    THEN {[lon |-> (s[jd - OneDay][b].lon + v) % FullCircle,
           speed |-> v, ok |-> k] : v \in env.dom[b].speed, k \in env.dom[b].ok}
    ELSE {[lon |-> l, speed |-> v, ok |-> k] :
            l \in env.dom[b].lon0, v \in env.dom[b].speed, k \in env.dom[b].ok}

RECURSIVE DayAnswers(_, _, _)
DayAnswers(s, jd, i) ==
    IF i = 0 THEN {<<>>}
    ELSE {DictSet(f, INGRESS_PLANETS[i], a) :
            f \in DayAnswers(s, jd, i - 1),
            a \in BodyAnswers(s, jd, INGRESS_PLANETS[i])}

\* The sky maps that answer the queries for midnight jd: s itself when jd
\* was queried before, else s with one of the answers the world allows.
Observe(s, jd) ==
    IF jd \in DOMAIN s THEN {s}
    ELSE {DictSet(s, jd, a) : a \in DayAnswers(s, jd, Len(INGRESS_PLANETS))}

-----------------------------------------------------------------------------
(* TransitScanner.scan_period *)

\* SeedSpeeds, were a speed already stored for a body left as it is
RECURSIVE SeedSpeedsKept(_, _, _, _)
SeedSpeedsKept(s, init_jd, speeds, i) ==
    IF i > Len(RETROGRADE_PLANETS) THEN speeds
    ELSE LET p == get_planet_position(s, init_jd, RETROGRADE_PLANETS[i])
         IN  SeedSpeedsKept(s, init_jd,
                            IF RETROGRADE_PLANETS[i] \in DOMAIN speeds
                            THEN speeds
                            ELSE DictSet(speeds, RETROGRADE_PLANETS[i],
                                         IF p.raised THEN 0 ELSE p.speed),
                            i + 1)

\* Seeding of self.prev_speeds from the day before start_date
RECURSIVE SeedSpeeds(_, _, _, _)
SeedSpeeds(s, init_jd, speeds, i) ==
    IF i > Len(RETROGRADE_PLANETS) THEN speeds
    ELSE LET p == get_planet_position(s, init_jd, RETROGRADE_PLANETS[i])
         IN  SeedSpeeds(s, init_jd,
                        DictSet(speeds, RETROGRADE_PLANETS[i],
                                IF p.raised THEN 0 ELSE p.speed),
                        i + 1)

\* SeedSigns, were every sign seeded as unknown
SeedSignsUnknown(s, init_jd, sgn, i) ==
    [b \in DOMAIN sgn \cup Range(INGRESS_PLANETS) |->
       IF b \in Range(INGRESS_PLANETS) THEN -1 ELSE sgn[b]]

\* Seeding of prev_signs from the day before start_date
RECURSIVE SeedSigns(_, _, _, _)
SeedSigns(s, init_jd, sgn, i) ==
    IF i > Len(INGRESS_PLANETS) THEN sgn
    ELSE LET p == get_planet_position(s, init_jd, INGRESS_PLANETS[i])
         IN  SeedSigns(s, init_jd,
                       DictSet(sgn, INGRESS_PLANETS[i],
                               IF p.raised THEN -1
                               ELSE normalize_angle(p.longitude) \div Deg(30)),
                       i + 1)

\* `if partner_chart:` : neither None nor an empty dict
Truthy(chart_opt) == chart_opt # <<>> /\ DOMAIN chart_opt[1] # {}

\* The call, up to the first test of the while loop.
ScanStart(natal, start_date, end_date, partner) ==
    /\ pc = "idle"
    /\ \E s \in Observe(sky, datetime_to_jd(SubDay(start_date))) :
         /\ sky' = s
         /\ prev_speeds' = SeedSpeeds(s, datetime_to_jd(SubDay(start_date)),
                                      prev_speeds, 1)
         /\ prev_signs' = SeedSigns(s, datetime_to_jd(SubDay(start_date)),
                                    <<>>, 1)
    /\ events' = <<>>
    /\ start_dt' = start_date
    /\ end_dt' = end_date
    /\ current_date' = start_date
    /\ natal_chart' = natal
    /\ partner_chart' = partner
    /\ days' = <<>>
    /\ pc' = "loop"
    /\ UNCHANGED <<env, second, call>>

DayRecord(r1, lunations, r3, user, partner) ==
    [prev_speeds |-> r1.prev_speeds,
     prev_signs |-> r3.prev_signs,
     events |-> r1.events \o lunations \o r3.events \o user \o partner]

\* What one iteration of the while loop appends and stores, under sky s.
DayResult(s, date, speeds, sgn, natal, partner) ==
    DayRecord(detect_retrograde_stations(s, date, speeds),
              detect_lunations_and_eclipses(s, date),
              detect_ingresses(s, date, sgn),
              detect_transits_to_natal(s, date, natal, "User"),
              IF Truthy(partner)
              THEN detect_transits_to_natal(s, date, partner[1], "Partner")
              ELSE <<>>)

\* One iteration of `while current_date <= end_dt`.
ScanDay ==
    /\ pc = "loop"
    /\ DateLeq(current_date, end_dt)
    /\ \E s \in Observe(sky, datetime_to_jd(current_date)) :
         \E r \in {DayResult(s, current_date, prev_speeds, prev_signs,
                             natal_chart, partner_chart)} :
             /\ sky' = s
             /\ prev_speeds' = r.prev_speeds
             /\ prev_signs' = r.prev_signs
             /\ events' = events \o r.events
             /\ days' = Append(days, [date |-> current_date,
                                      speeds_before |-> prev_speeds,
                                      signs_before |-> prev_signs,
                                      emitted |-> r.events])
    /\ current_date' = AddDay(current_date)
    /\ UNCHANGED <<env, pc, start_dt, end_dt, natal_chart, partner_chart,
                   second, call>>

\* The loop's exit: the sort and the return.
ScanReturn ==
    /\ pc = "loop"
    /\ ~DateLeq(current_date, end_dt)
    /\ events' = SortEvents(events)
    /\ pc' = "done"
    /\ UNCHANGED <<env, sky, prev_speeds, prev_signs, current_date, start_dt,
                   end_dt, natal_chart, partner_chart, days, second, call>>

-----------------------------------------------------------------------------
(* Bounds and inputs *)

\* The longest scan, in days
MaxDays == 3

\* The scan around a New Moon, in days
LunarDays == 31

RECURSIVE AddDays(_, _)
AddDays(d, k) == IF k = 0 THEN d ELSE AddDays(AddDay(d), k - 1)

\* The end date of a scan of n days from start_date; n = 0: start > end
EndDate(start_date, n) ==
    IF n = 0 THEN SubDay(start_date) ELSE AddDays(start_date, n - 1)

\* A body in steady direct motion, always answered
Steady(lon, speed) == [lon0 |-> {lon}, speed |-> {speed}, ok |-> {TRUE}]

SteadyDom ==
    [b \in Bodies |->
        CASE b = "Sun"     -> Steady(Deg(100), 1000)
          [] b = "Moon"    -> Steady(Deg(190), 13000)
          [] b = "Mercury" -> Steady(Deg(95), 1200)
          [] b = "Venus"   -> Steady(Deg(130), 1100)
          [] b = "Mars"    -> Steady(Deg(200), 600)
          [] b = "Jupiter" -> Steady(Deg(247), 100)
          [] b = "Saturn"  -> Steady(Deg(303), 50)
          [] b = "Uranus"  -> Steady(Deg(36), 20)
          [] b = "Neptune" -> Steady(3500, 10)
          [] b = "Pluto"   -> Steady(Deg(326), 10)]

\* A chart as calculate_chart returns it: "planets" (a longitude of None
\* for a body the provider failed on), "houses", "angles" (Ascendant and
\* MC; the cusps are under "houses", not under "angles").
ChartOf(longitudes, cusps) ==
    [planets |-> [b \in DOMAIN longitudes |-> [longitude |-> longitudes[b]]],
     houses  |-> [i \in 1..12 |-> <<HouseNames[i], cusps[i]>>],
     angles  |-> [Ascendant |-> cusps[1], MC |-> cusps[10]]]

Cusps1 == [i \in 1..12 |-> (Deg(100) + Deg(30) * (i - 1)) % FullCircle]

Natal1 ==
    ChartOf([b \in Bodies |->
               << CASE b = "Sun"     -> 10004
                    [] b = "Moon"    -> 69500
                    [] b = "Mercury" -> 100200
                    [] b = "Venus"   -> Deg(129)
                    [] b = "Mars"    -> Deg(218)
                    [] b = "Jupiter" -> 190300
                    [] b = "Saturn"  -> Deg(285)
                    [] b = "Uranus"  -> Deg(15)
                    [] b = "Neptune" -> Deg(345)
                    [] b = "Pluto"   -> Deg(45) >>],
            Cusps1)

\* A partial chart: the provider failed on Mercury
Partial1 ==
    ChartOf([b \in Bodies |->
               CASE b = "Sun"     -> <<200500>>
                 [] b = "Moon"    -> <<Deg(247)>>
                 [] b = "Mercury" -> <<>>
                 [] OTHER         -> <<Deg(40)>>],
            Cusps1)

\* A chart that holds two bodies only
Pair1 ==
    ChartOf([b \in {"Moon", "Mars"} |->
               IF b = "Moon" THEN <<69500>> ELSE <<Deg(217)>>],
            Cusps1)

\* No eclipse in the provider's range: the search raises
NoEclipse == [raises |-> TRUE, retflag |-> 0, times |-> {}]

StartDate1 == <<2025, 12, 30>>

BaseEnv ==
    [dom |-> SteadyDom, solar |-> NoEclipse, lunar |-> NoEclipse, tz |-> 0,
     starts |-> {StartDate1}, lengths |-> 0..MaxDays,
     charts |-> {Natal1}, partners |-> {<<>>}]

\* Mercury near the Taurus/Gemini border, stationing, and at times not
\* answered
MercuryEnv ==
    [BaseEnv EXCEPT
       !.dom["Mercury"] = [lon0 |-> {60200}, speed |-> {-204, 0, 204},
                           ok |-> {TRUE, FALSE}],
       !.charts = {Partial1}]

\* Mars around the conjunction with the natal Mars, with a partner chart
\* or without
TransitEnv ==
    [BaseEnv EXCEPT
       !.dom["Mars"] = [lon0 |-> {Deg(216), 219200}, speed |-> {-600, 0, 600},
                        ok |-> {TRUE}],
       !.partners = {<<>>, <<Partial1>>, <<Pair1>>}]

\* The midnight of the New Moon of the lunar scans, and of the Full Moon
\* after it
NewMoonJd == datetime_to_jd(AddDays(StartDate1, 14))
FullMoonJd == datetime_to_jd(AddDays(StartDate1, 29))

\* An eclipse at instant t, found by a search anchored at or before t
EclipseAt(t, retflag) == [raises |-> FALSE, retflag |-> retflag, times |-> {t}]

\* The Moon gains 12 degrees a day on the Sun and passes it around the 15th
\* scanned day; an eclipse may come with it
LunarEnvs ==
    {[BaseEnv EXCEPT
        !.dom["Moon"] = [lon0 |-> {Deg(280) + offset}, speed |-> {13000},
                         ok |-> {TRUE}],
        !.solar = solar, !.lunar = lunar, !.tz = tz,
        !.lengths = {LunarDays}] :
       offset \in {0, 3000, 6000, 9000},
       solar \in {NoEclipse, EclipseAt(NewMoonJd + 12, 0),
                  EclipseAt(NewMoonJd - 22, 0), EclipseAt(NewMoonJd + 47, 0),
                  EclipseAt(NewMoonJd + 12, -1)},
       lunar \in {NoEclipse, EclipseAt(FullMoonJd + 12, 0)},
       tz \in {0, 2}}

-----------------------------------------------------------------------------
(* Specifications *)

Idle ==
    /\ sky = <<>>
    /\ pc = "idle"
    /\ prev_speeds = <<>>       \* __init__: self.prev_speeds = {}
    /\ prev_signs = <<>>
    /\ current_date = StartDate1
    /\ start_dt = StartDate1
    /\ end_dt = StartDate1
    /\ natal_chart = <<>>
    /\ partner_chart = <<>>
    /\ events = <<>>
    /\ days = <<>>
    /\ second = [pc |-> "idle"]
    /\ call = [op |-> "none"]

Init == env = MercuryEnv /\ Idle

Next ==
    \/ \E natal \in env.charts, start_date \in env.starts,
          partner \in env.partners :
         \E n \in env.lengths :
            ScanStart(natal, start_date, EndDate(start_date, n), partner)
    \/ ScanDay
    \/ ScanReturn

Spec == Init /\ [][Next]_vars

\* Scans of a lunar month
InitLunar == env \in LunarEnvs /\ Idle
SpecLunar == InitLunar /\ [][Next]_vars

\* Scans with Mars at a natal position
InitTransit == env = TransitEnv /\ Idle
SpecTransit == InitTransit /\ [][Next]_vars

-----------------------------------------------------------------------------
(* What a scan has seen and done.  Day 0 is the seed day (the day before   *)
(* start_dt), day i >= 1 the i-th scanned day, days[i] its record.         *)

Scanned == 1..Len(days)

DayJd(i) == datetime_to_jd(start_dt) + (i - 1) * OneDay

\* What the provider's world holds for body b on day i
TrueAt(i, b) == sky[DayJd(i)][b]

Sign(x) == IF x > 0 THEN 1 ELSE IF x < 0 THEN -1 ELSE 0

\* floor(normalized_longitude / 30) of a longitude
SignIndex(lon) == (lon % FullCircle) \div Deg(30)

\* The events of one type for one body among those of day i, in order
EmittedOn(i, type, b) ==
    SelectSeq(days[i].emitted, LAMBDA e : e.type = type /\ e.planet = b)

\* self.prev_speeds and prev_signs as day i left them
SpeedsAfter(i) == IF i < Len(days) THEN days[i + 1].speeds_before ELSE prev_speeds
SignsAfter(i) == IF i < Len(days) THEN days[i + 1].signs_before ELSE prev_signs

\* Everything the first n scanned days emitted, in order of emission
RECURSIVE EmittedUpTo(_)
EmittedUpTo(n) ==
    IF n = 0 THEN <<>> ELSE EmittedUpTo(n - 1) \o days[n].emitted

AllEmitted == EmittedUpTo(Len(days))

RetrogradeBodies == Range(RETROGRADE_PLANETS)

-----------------------------------------------------------------------------
(* C1 *)

\* C1, as claimed: on every scanned day and for every body of
\* RETROGRADE_PLANETS whose speed the provider answers, if the sign of the
\* day's speed differs from the sign of the stored speed there is a
\* RETROGRADE event for the body dated that day, "retrograde" from positive
\* to negative and "direct" from negative to positive, and the stored speed
\* becomes the day's speed either way.  The code compares with > 0 and < 0
\* only, so a speed of zero (sampled, or the 0.0 stored for a failed seed)
\* changes sign without an event.
C1_SignChangeEmits ==
    pc # "idle" =>
      \A i \in Scanned : \A b \in RetrogradeBodies :
        TrueAt(i, b).ok =>
          /\ Sign(TrueAt(i, b).speed) # Sign(days[i].speeds_before[b]) =>
               /\ Len(EmittedOn(i, "RETROGRADE", b)) = 1
               /\ EmittedOn(i, "RETROGRADE", b)[1].date = days[i].date
               /\ (days[i].speeds_before[b] > 0 /\ TrueAt(i, b).speed < 0 =>
                     EmittedOn(i, "RETROGRADE", b)[1].direction = "retrograde")
               /\ (days[i].speeds_before[b] < 0 /\ TrueAt(i, b).speed > 0 =>
                     EmittedOn(i, "RETROGRADE", b)[1].direction = "direct")
          /\ SpeedsAfter(i)[b] = TrueAt(i, b).speed

-----------------------------------------------------------------------------
(* C2 *)

\* The RETROGRADE events of one direction emitted so far for body b
StationEvents(b, direction) ==
    SelectSeq(AllEmitted,
              LAMBDA e : e.type = "RETROGRADE" /\ e.planet = b
                         /\ e.direction = direction)

\* C2, as claimed: for every body the number of "retrograde" events equals
\* the number of consecutive days (seed day / start day included) over which
\* its speed goes from positive to negative, and the number of "direct"
\* events the number of negative-to-positive pairs.  A day on which the
\* lookup fails breaks it: the body's speed of that day is never seen.
C2_CountsMatchDayPairs ==
    pc # "idle" =>
      \A b \in RetrogradeBodies :
        /\ Len(StationEvents(b, "retrograde"))
             = Cardinality({i \in Scanned : /\ TrueAt(i - 1, b).speed > 0
                                            /\ TrueAt(i, b).speed < 0})
        /\ Len(StationEvents(b, "direct"))
             = Cardinality({i \in Scanned : /\ TrueAt(i - 1, b).speed < 0
                                            /\ TrueAt(i, b).speed > 0})

\* The speeds the scanner has sampled for body b up to day n, in order:
\* the seed day's and each scanned day's, where the lookup answered
RECURSIVE Samples(_, _)
Samples(b, n) ==
    IF n < 0 THEN <<>>
    ELSE Samples(b, n - 1)
         \o (IF TrueAt(n, b).ok
             THEN <<[day |-> n, speed |-> TrueAt(n, b).speed]>> ELSE <<>>)

\* The days of the later sample of two successive samples that go from
\* sign `from` to sign `to`
TurnDays(S, from, to) ==
    {S[k + 1].day : k \in {j \in 1..(Len(S) - 1) :
                             /\ Sign(S[j].speed) = from
                             /\ Sign(S[j + 1].speed) = to}}

\* C2: RETROGRADE events are never spurious.  For every body, the days that
\* carry a "retrograde" event are exactly the days of a sample that is
\* negative after a positive previous sample (the samples being the speeds
\* of the seed day and of the scanned days on which the lookup answered),
\* the days that carry a "direct" event exactly those of a positive sample
\* after a negative one, and no day carries two events for one body; so
\* the events of each direction are as many as the sample pairs.
C2_NeverSpurious ==
    pc # "idle" =>
      \A b \in RetrogradeBodies :
        /\ \A i \in Scanned : Len(EmittedOn(i, "RETROGRADE", b)) <= 1
        /\ {i \in Scanned : \E k \in DOMAIN EmittedOn(i, "RETROGRADE", b) :
                EmittedOn(i, "RETROGRADE", b)[k].direction = "retrograde"}
             = TurnDays(Samples(b, Len(days)), 1, -1)
        /\ {i \in Scanned : \E k \in DOMAIN EmittedOn(i, "RETROGRADE", b) :
                EmittedOn(i, "RETROGRADE", b)[k].direction = "direct"}
             = TurnDays(Samples(b, Len(days)), -1, 1)
        /\ Len(StationEvents(b, "retrograde"))
             = Cardinality(TurnDays(Samples(b, Len(days)), 1, -1))
        /\ Len(StationEvents(b, "direct"))
             = Cardinality(TurnDays(Samples(b, Len(days)), -1, 1))

\* The series +, +, -, - (seed day and three scanned days, all answered):
\* one "retrograde" event, on the third sample, and no "direct" event
C2_Witness ==
    /\ pc = "done" /\ Len(days) = 3
    /\ \A i \in 0..3 : TrueAt(i, "Mercury").ok
    /\ TrueAt(0, "Mercury").speed > 0 /\ TrueAt(1, "Mercury").speed > 0
    /\ TrueAt(2, "Mercury").speed < 0 /\ TrueAt(3, "Mercury").speed < 0
    /\ Len(StationEvents("Mercury", "retrograde")) = 1
    /\ StationEvents("Mercury", "retrograde")[1].date = days[2].date
    /\ Len(StationEvents("Mercury", "direct")) = 0

-----------------------------------------------------------------------------
(* C3 *)

-----------------------------------------------------------------------------
(* C4 *)

\* C4, as claimed: the "sign" of every INGRESS event is the sign whose index
\* is floor(longitude / 30) of the body on the event's date.  The code takes
\* the name from _decimal_to_dms, which rounds the minutes and carries
\* 29 deg 60' into the next sign.
C4_IngressNamesIndexSign ==
    pc # "idle" =>
      \A i \in Scanned : \A b \in Bodies :
        \A k \in DOMAIN EmittedOn(i, "INGRESS", b) :
          EmittedOn(i, "INGRESS", b)[k].sign
            = signs[SignIndex(TrueAt(i, b).lon) + 1]

-----------------------------------------------------------------------------
(* C5 *)

\* C5, as claimed: on the first scanned day a RETROGRADE event is emitted
\* for a body exactly when the sign of its speed on the start date differs
\* from that on the day before, and an INGRESS event exactly when its sign
\* index on the start date differs from that on the day before.  A seed
\* lookup that fails stores 0.0 and -1 instead of the day's values.
C5_FirstDayAgainstDayBefore ==
    pc # "idle" /\ Len(days) >= 1 =>
      /\ \A b \in RetrogradeBodies :
           TrueAt(1, b).ok =>
             (Len(EmittedOn(1, "RETROGRADE", b)) > 0
                <=> Sign(TrueAt(1, b).speed) # Sign(TrueAt(0, b).speed))
      /\ \A b \in Bodies :
           TrueAt(1, b).ok =>
             (Len(EmittedOn(1, "INGRESS", b)) > 0
                <=> SignIndex(TrueAt(1, b).lon) # SignIndex(TrueAt(0, b).lon))

-----------------------------------------------------------------------------
(* C6 *)

\* The sort key of an event
KeyOf(e) == <<e.date, e.type>>

\* key k1 <= key k2: by date, then by type string
KeyOrdered(k1, k2) ==
    \/ DateLess(k1[1], k2[1])
    \/ k1[1] = k2[1] /\ TypeRank(k1[2]) <= TypeRank(k2[2])

WithKey(list, k) == SelectSeq(list, LAMBDA e : KeyOf(e) = k)

\* C6: the returned list is ordered by date and, within a date, by type; the
\* events of one date and type are in it in the order of their emission; and
\* it holds exactly the events emitted during the scan, each as often as
\* emitted.
C6_StableSortOfEmitted ==
    pc = "done" =>
      /\ \A i \in 1..(Len(events) - 1) :
           KeyOrdered(KeyOf(events[i]), KeyOf(events[i + 1]))
      /\ Len(events) = Len(AllEmitted)
      /\ \A k \in {KeyOf(AllEmitted[i]) : i \in DOMAIN AllEmitted}
                \cup {KeyOf(events[i]) : i \in DOMAIN events} :
           WithKey(events, k) = WithKey(AllEmitted, k)

\* A return whose list differs from the order of emission and holds two
\* different events of one date and type
C6_Witness ==
    /\ pc = "done"
    /\ events # AllEmitted
    /\ \E i \in DOMAIN events :
         /\ i < Len(events)
         /\ KeyOf(events[i]) = KeyOf(events[i + 1])
         /\ events[i].planet # events[i + 1].planet

-----------------------------------------------------------------------------
(* C7 *)

\* The days from start_dt to end_dt inclusive; 0 when start_dt > end_dt
ScanLength ==
    IF DateOrdinal(end_dt) >= DateOrdinal(start_dt)
    THEN DateOrdinal(end_dt) - DateOrdinal(start_dt) + 1 ELSE 0

\* The steps a scan has left: a day for each day still to scan, and the
\* return
StepsLeft == (ScanLength - Len(days)) + (IF pc = "done" THEN 0 ELSE 1)

\* C7: the scan runs the detection rules once for each calendar day from
\* start to end inclusive, in increasing date order, whatever lookups fail
\* on the way: the i-th day scanned is start + (i - 1), the scan is left only
\* after the day `end`, with no day scanned and an empty list when
\* start > end.  It terminates: every step of a scan takes one from the
\* steps it has left, which are never fewer than none.
C7_EveryDayOnceThenReturn ==
    /\ [](pc # "idle" =>
            /\ Len(days) <= ScanLength
            /\ \A i \in Scanned : days[i].date = AddDays(start_dt, i - 1)
            /\ current_date = AddDays(start_dt, Len(days))
            /\ (pc = "done" => Len(days) = ScanLength)
            /\ (pc = "done" /\ ScanLength = 0 => events = <<>>))
    /\ [][pc # "idle" => StepsLeft' = StepsLeft - 1]_vars

\* A three-day scan across the turn of the year returns although a lookup
\* failed on its first day
C7_Witness ==
    /\ pc = "done"
    /\ Len(days) = 3
    /\ days[3].date = <<2026, 1, 1>>
    /\ ~TrueAt(1, "Mercury").ok

-----------------------------------------------------------------------------
(* C8 *)

\* The distance of two longitudes on the circle
Arc(a, b) ==
    IF Abs((a % FullCircle) - (b % FullCircle)) > Deg(180)
    THEN FullCircle - Abs((a % FullCircle) - (b % FullCircle))
    ELSE Abs((a % FullCircle) - (b % FullCircle))

Separation(i) == Arc(TrueAt(i, "Sun").lon, TrueAt(i, "Moon").lon)

\* The LUNATION and ECLIPSE events of day i
MoonEvents(i) ==
    SelectSeq(days[i].emitted, LAMBDA e : e.type \in {"LUNATION", "ECLIPSE"})

\* The search anchored one day before day i answers a date within one day
\* of day i
SearchIsNear(ret, i) ==
    /\ ~ret.raised
    /\ ret.retflag >= 0
    /\ EclipseDateOrdinal(ret.tret) \in
         (DateOrdinal(days[i].date) - 1)..(DateOrdinal(days[i].date) + 1)

\* C8: on a day whose Sun-Moon separation is below 13 or above 167 degrees
\* there is exactly one LUNATION or ECLIPSE event, dated that day: an
\* ECLIPSE when the eclipse search anchored one day earlier (solar in the
\* New Moon window, lunar in the Full Moon window) answers a date within one
\* day of the day, a LUNATION otherwise; on a day outside both windows there
\* is neither.
C8_OneMoonEventPerWindowDay ==
    pc # "idle" =>
      \A i \in Scanned :
        TrueAt(i, "Sun").ok /\ TrueAt(i, "Moon").ok =>
          IF Separation(i) < Deg(13) \/ Separation(i) > Deg(167)
          THEN /\ Len(MoonEvents(i)) = 1
               /\ MoonEvents(i)[1].date = days[i].date
               /\ MoonEvents(i)[1].type = "ECLIPSE" <=>
                    SearchIsNear(IF Separation(i) < Deg(13)
                                 THEN sol_eclipse_when_loc(DayJd(i) - OneDay)
                                 ELSE lun_eclipse_when(DayJd(i) - OneDay), i)
               /\ MoonEvents(i)[1].event[1] =
                    IF Separation(i) < Deg(13)
                    THEN (IF MoonEvents(i)[1].type = "ECLIPSE"
                          THEN "Solar Eclipse in" ELSE "New Moon in")
                    ELSE (IF MoonEvents(i)[1].type = "ECLIPSE"
                          THEN "Lunar Eclipse in" ELSE "Full Moon in")
          ELSE Len(MoonEvents(i)) = 0

\* A scan with a New Moon day that carries an ECLIPSE whose date is the day
\* after, another New Moon day that carries a LUNATION, and a day outside
\* the windows
C8_Witness ==
    /\ pc = "done"
    /\ \E i \in Scanned :
         /\ Separation(i) < Deg(13)
         /\ Len(MoonEvents(i)) = 1 /\ MoonEvents(i)[1].type = "ECLIPSE"
         /\ EclipseDateOrdinal(sol_eclipse_when_loc(DayJd(i) - OneDay).tret)
              = DateOrdinal(days[i].date) + 1
    /\ \E i \in Scanned :
         /\ Separation(i) < Deg(13)
         /\ Len(MoonEvents(i)) = 1 /\ MoonEvents(i)[1].type = "LUNATION"
    /\ \E i \in Scanned :
         Separation(i) >= Deg(13) /\ Separation(i) <= Deg(167)

-----------------------------------------------------------------------------
(* C9 *)

\* The events of the New Moon: "New Moon" lunations and solar eclipses
NewMoonEvents ==
    SelectSeq(AllEmitted,
              LAMBDA e : /\ e.type \in {"LUNATION", "ECLIPSE"}
                         /\ e.event[1] \in {"New Moon in", "Solar Eclipse in"})

\* C9, as claimed: a scan of 31 days around a New Moon, the separation
\* changing by 12 degrees a day, returns exactly one LUNATION or ECLIPSE
\* event for that New Moon.  The rule fires on every midnight within 13
\* degrees of the conjunction, and at 12 degrees a day two or three
\* midnights are.
C9_OneEventPerNewMoon ==
    pc = "done" /\ Len(days) = LunarDays
      /\ (\E i \in Scanned : Separation(i) < Deg(13))
      /\ (\A i \in Scanned :
            Arc(TrueAt(i, "Moon").lon - TrueAt(i, "Sun").lon,
                TrueAt(i - 1, "Moon").lon - TrueAt(i - 1, "Sun").lon) = Deg(12))
      => Len(NewMoonEvents) = 1

-----------------------------------------------------------------------------
(* C10 *)

\* The TRANSIT events of day i
TransitEvents(i) == SelectSeq(days[i].emitted, LAMBDA e : e.type = "TRANSIT")

\* The natal longitude a TRANSIT event is about
NatalLongitudeOf(e) ==
    IF e.target = "User"
    THEN natal_chart.planets[e.natal_planet].longitude[1]
    ELSE partner_chart[1].planets[e.natal_planet].longitude[1]

\* The orb of the event's pair to the event's aspect angle on day i
OrbOn(i, e) ==
    Abs(Arc(TrueAt(i, e.planet).lon, NatalLongitudeOf(e)) - e.angle_deg)

\* C10: every TRANSIT event is flagged applying exactly when the orb of its
\* pair to its aspect angle was larger one day earlier than on the event's
\* day, and separating otherwise, an equal orb included; its orb is at most
\* 1.5 degrees when applying and at most 1.0 degree when separating, so no
\* event is emitted for an orb beyond the limit of its class.
C10_ApplyingAndOrbLimits ==
    pc # "idle" =>
      \A i \in Scanned : \A k \in DOMAIN TransitEvents(i) :
        /\ TransitEvents(i)[k].is_applying
             <=> OrbOn(i - 1, TransitEvents(i)[k]) > OrbOn(i, TransitEvents(i)[k])
        /\ OrbOn(i, TransitEvents(i)[k])
             <= (IF TransitEvents(i)[k].is_applying
                 THEN MAX_ORB_APPLYING ELSE MAX_ORB_SEPARATING)
        /\ TransitEvents(i)[k].orb = Round2(OrbOn(i, TransitEvents(i)[k]))

\* An applying event with an orb between 1.0 and 1.5 degrees, and a
\* separating event whose orb is what it was the day before
C10_Witness ==
    /\ pc # "idle"
    /\ \E i \in Scanned : \E k \in DOMAIN TransitEvents(i) :
         /\ TransitEvents(i)[k].is_applying
         /\ OrbOn(i, TransitEvents(i)[k]) > MAX_ORB_SEPARATING
    /\ \E i \in Scanned : \E k \in DOMAIN TransitEvents(i) :
         /\ ~TransitEvents(i)[k].is_applying
         /\ TransitEvents(i)[k].planet = "Mars"
         /\ OrbOn(i - 1, TransitEvents(i)[k]) = OrbOn(i, TransitEvents(i)[k])

-----------------------------------------------------------------------------
(* AstrologyEngine._get_planet_house (the House Mapper).  house_cusps is   *)
(* a dict from "House1".."House12" to a cusp, held as a sequence of        *)
(* <<name, cusp>> pairs; the result is Optional: <<>> is None.             *)

\* house_cusps[house_name]
CuspAt(house_cusps, house_name) ==
    house_cusps[CHOOSE k \in DOMAIN house_cusps : house_cusps[k][1] = house_name][2]

\* house_name in house_cusps
HasHouse(house_cusps, house_name) ==
    \E k \in DOMAIN house_cusps : house_cusps[k][1] = house_name

\* The first n rounds of `for i in range(1, 13)`: the pairs (i, cusp % 360)
\* of the houses that are in the dict, in house order
RECURSIVE HouseCuspList(_, _)
HouseCuspList(house_cusps, n) ==
    IF n = 0 THEN <<>>
    ELSE HouseCuspList(house_cusps, n - 1)
         \o (IF HasHouse(house_cusps, HouseNames[n])
             THEN << <<n, CuspAt(house_cusps, HouseNames[n]) % FullCircle>> >>
             ELSE <<>>)

\* The test of the pair (current_cusp, next_cusp), were a point on the
\* next cusp still in the house and a point on the current cusp not
PairHoldsUpperEnd(current_cusp, next_cusp, planet_lon) ==
    IF next_cusp < current_cusp
    THEN planet_lon > current_cusp \/ planet_lon <= next_cusp
    ELSE current_cusp < planet_lon /\ planet_lon <= next_cusp

\* The test of the pair, were a next cusp below the current one not
\* taken as the way around 0
PairHoldsNoWrap(current_cusp, next_cusp, planet_lon) ==
    current_cusp <= planet_lon /\ planet_lon < next_cusp

\* The test of one pair (current_cusp, next_cusp) of the walk
PairHolds(current_cusp, next_cusp, planet_lon) ==
    IF next_cusp < current_cusp
    THEN planet_lon >= current_cusp \/ planet_lon < next_cusp
    ELSE current_cusp <= planet_lon /\ planet_lon < next_cusp

\* The rounds of the walk over house_cusp_list whose pair holds the point
HoldingRounds(house_cusp_list, planet_lon) ==
    {i \in DOMAIN house_cusp_list :
        PairHolds(house_cusp_list[i][2],
                  house_cusp_list[(i % Len(house_cusp_list)) + 1][2],
                  planet_lon)}

\* The key of the fallback's min(): the distance of a cusp to the point
CuspDistance(cusp, planet_lon) ==
    Min2(Abs(cusp - planet_lon),
         Min2(Abs((cusp + FullCircle) - planet_lon),
              Abs(cusp - (planet_lon + FullCircle))))

\* min(house_cusp_list, key=...): the first entry with the smallest key
ClosestHouse(house_cusp_list, planet_lon) ==
    house_cusp_list[
        CHOOSE i \in DOMAIN house_cusp_list :
          /\ \A j \in DOMAIN house_cusp_list :
               CuspDistance(house_cusp_list[i][2], planet_lon)
                 <= CuspDistance(house_cusp_list[j][2], planet_lon)
          /\ \A j \in 1..(i - 1) :
               CuspDistance(house_cusp_list[j][2], planet_lon)
                 > CuspDistance(house_cusp_list[i][2], planet_lon)][1]

\* The walk alone, with None where no pair holds the point
HouseOfListWalkOnly(house_cusp_list, planet_lon) ==
    IF house_cusp_list = <<>> \/ HoldingRounds(house_cusp_list, planet_lon) = {}
    THEN <<>>
    ELSE <<house_cusp_list[
             CHOOSE i \in HoldingRounds(house_cusp_list, planet_lon) :
               \A j \in HoldingRounds(house_cusp_list, planet_lon) : i <= j][1]>>

\* The walk and the fallback, on the list and the normalized longitude
HouseOfList(house_cusp_list, planet_lon) ==
    IF house_cusp_list = <<>> THEN <<>>
    ELSE IF HoldingRounds(house_cusp_list, planet_lon) # {}
    THEN <<house_cusp_list[
             CHOOSE i \in HoldingRounds(house_cusp_list, planet_lon) :
               \A j \in HoldingRounds(house_cusp_list, planet_lon) : i <= j][1]>>
    ELSE <<ClosestHouse(house_cusp_list, planet_lon)>>

\* planet_longitude is Optional
get_planet_house(planet_longitude, house_cusps) ==
    IF house_cusps = <<>> \/ planet_longitude = <<>> THEN <<>>
    ELSE HouseOfList(HouseCuspList(house_cusps, 12),
                     planet_longitude[1] % FullCircle)

\* AstrologyEngine.map_planet_to_natal_house
map_planet_to_natal_house(planet_longitude, natal_house_cusps) ==
    IF get_planet_house(planet_longitude, natal_house_cusps) = <<>> THEN 1
    ELSE get_planet_house(planet_longitude, natal_house_cusps)[1]

-----------------------------------------------------------------------------
(* C11 *)

\* The chart a TRANSIT event was computed against
ChartOfEvent(e) == IF e.target = "User" THEN natal_chart ELSE partner_chart[1]

\* C11, as claimed: every TRANSIT event of a scan over charts built by
\* calculate_chart carries as house_impact the house, 1 to 12, that
\* _get_planet_house gives the transiting body's longitude under the
\* chart's cusps.  The scanner looks the cusps up under
\* chart["angles"]["houses"], where calculate_chart puts none.
C11_HouseImpactIsMappedHouse ==
    pc # "idle" =>
      \A i \in Scanned : \A k \in DOMAIN TransitEvents(i) :
        TransitEvents(i)[k].house_impact
          = HouseDigits[
              get_planet_house(<<TrueAt(i, TransitEvents(i)[k].planet).lon>>,
                               ChartOfEvent(TransitEvents(i)[k]).houses)[1]]

-----------------------------------------------------------------------------
(* C12 *)

\* What day i emits and stores when no partner chart is supplied
AloneOn(i) ==
    DayResult(sky, days[i].date, days[i].speeds_before, days[i].signs_before,
              natal_chart, <<>>)

\* The events of day i that are not TRANSIT events tagged "Partner"
NotForPartner(i) ==
    SelectSeq(days[i].emitted,
              LAMBDA e : ~(e.type = "TRANSIT" /\ e.target = "Partner"))

\* Day i leaves behind what `alone` does, the "Partner" TRANSIT events apart
SameAsAlone(i, alone) ==
    /\ NotForPartner(i) = alone.events
    /\ SpeedsAfter(i) = alone.prev_speeds
    /\ SignsAfter(i) = alone.prev_signs

\* Every TRANSIT event of the list is tagged for a supplied chart and shows
\* the natal position of the chart of its tag
TaggedForItsChart(list) ==
    \A k \in DOMAIN list :
      /\ list[k].target \in {"User", "Partner"}
      /\ list[k].natal_position = decimal_to_dms(NatalLongitudeOf(list[k]))
      /\ list[k].target = "Partner" => Truthy(partner_chart)

\* C12: the transit rule runs once per supplied chart, independently.  Every
\* TRANSIT event of a finished scan is tagged "User" or "Partner" and shows
\* the natal position of the chart of its tag; the "User" TRANSIT events and
\* the RETROGRADE, LUNATION, ECLIPSE and INGRESS events of each day, and what
\* the day stores, are what the day gives with no partner chart at all,
\* whatever the partner chart is; and with no partner chart no event is
\* tagged "Partner".
C12_PartnerLeavesRestAlone ==
    pc = "done" =>
      \A i \in Scanned :
        /\ TaggedForItsChart(TransitEvents(i))
        /\ SameAsAlone(i, AloneOn(i))

\* A day of a scan with a partner chart that carries a "User" and a
\* "Partner" TRANSIT event
C12_Witness ==
    /\ pc = "done"
    /\ Truthy(partner_chart)
    /\ \E i \in Scanned : \E k, l \in DOMAIN TransitEvents(i) :
         /\ TransitEvents(i)[k].target = "User"
         /\ TransitEvents(i)[l].target = "Partner"

-----------------------------------------------------------------------------
(* Calls of the House Mapper *)

\* The points of the circle tried besides the cusps: HouseGrid of them,
\* evenly spread
HouseGrid == 24

GridPoints == {(k * FullCircle) \div HouseGrid : k \in 0..(HouseGrid - 1)}

\* The house_cusps dict of 12 cusps
HouseDict(cusps) == [i \in 1..12 |-> <<HouseNames[i], cusps[i]>>]

RECURSIVE SumTo(_, _)
SumTo(widths, n) == IF n = 0 THEN 0 ELSE SumTo(widths, n - 1) + widths[n]

\* Twelve cusps that follow each other by the given widths from House1 on
CuspRun(start, widths) ==
    [i \in 1..12 |-> (start + SumTo(widths, i - 1)) % FullCircle]

EvenWidths == [i \in 1..12 |-> Deg(30)]
UnevenWidths ==
    <<Deg(20), Deg(25), Deg(45), Deg(45), Deg(25), Deg(20),
      Deg(20), Deg(25), Deg(45), Deg(45), Deg(25), Deg(20)>>
TightWidths == [i \in 1..12 |-> IF i = 12 THEN FullCircle - 11 ELSE 1]

CuspStarts == {0, Deg(10), Deg(100), Deg(352), FullCircle - 1}

\* Cusps in house order around the circle, as a house system gives them
RunCuspSets ==
    {HouseDict(CuspRun(start, widths)) :
       start \in CuspStarts,
       widths \in {EvenWidths, UnevenWidths, TightWidths}}

\* House1 at 10, House12 at 350
ExampleCusps ==
    HouseDict([i \in 1..12 |->
                 IF i = 12 THEN Deg(350) ELSE Deg(10) + Deg(30) * (i - 1)])

\* The same dict with its items in the opposite order
Reversed(house_cusps) ==
    [k \in DOMAIN house_cusps |-> house_cusps[Len(house_cusps) + 1 - k]]

\* Dicts that no house system gives: equal cusps, two cusps exchanged,
\* houses missing, no house at all
OddCuspSets ==
    { HouseDict([i \in 1..12 |-> Deg(77)]),
      HouseDict([i \in 1..12 |-> 0]),
      HouseDict([i \in 1..12 |->
                   CASE i = 3 -> Cusps1[4] [] i = 4 -> Cusps1[3]
                     [] OTHER -> Cusps1[i]]),
      HouseDict([i \in 1..12 |->
                   CASE i = 1 -> Cusps1[12] [] i = 12 -> Cusps1[1]
                     [] OTHER -> Cusps1[i]]),
      << <<"House1", 82500>>, <<"House7", 262500>> >>,
      << <<"House9", Deg(300)>>, <<"House2", Deg(20)>>, <<"House5", Deg(20)>> >>,
      << <<"House4", Deg(200)>> >>,
      <<>> }

HouseCuspSets ==
    RunCuspSets \cup {ExampleCusps, Reversed(ExampleCusps),
                      Reversed(HouseDict(Cusps1))} \cup OddCuspSets

\* The longitudes tried under a dict: the grid, the points of the example,
\* each cusp and its two neighbours, points off [0, 360), and None
LongitudeArgs(house_cusps) ==
    {<<>>} \cup
    {<<l>> : l \in GridPoints \cup {Deg(5), Deg(15)}
                   \cup {-1, -Deg(355), FullCircle, FullCircle + Deg(5)}
                   \cup UNION {{house_cusps[k][2],
                                (house_cusps[k][2] + 1) % FullCircle,
                                (house_cusps[k][2] + FullCircle - 1) % FullCircle} :
                               k \in DOMAIN house_cusps}}

CallGetPlanetHouse ==
    /\ call.op = "none"
    /\ \E house_cusps \in HouseCuspSets :
         \E planet_longitude \in LongitudeArgs(house_cusps) :
            call' = [op |-> "_get_planet_house",
                     planet_longitude |-> planet_longitude,
                     house_cusps |-> house_cusps,
                     result |-> get_planet_house(planet_longitude, house_cusps)]
    /\ UNCHANGED <<env, sky, pc, prev_speeds, prev_signs, current_date, end_dt,
                   start_dt, natal_chart, partner_chart, events, days, second>>

CallMapPlanetToNatalHouse ==
    /\ call.op = "none"
    /\ \E house_cusps \in HouseCuspSets :
         \E planet_longitude \in LongitudeArgs(house_cusps) :
            call' = [op |-> "map_planet_to_natal_house",
                     planet_longitude |-> planet_longitude,
                     house_cusps |-> house_cusps,
                     result |-> map_planet_to_natal_house(planet_longitude,
                                                          house_cusps)]
    /\ UNCHANGED <<env, sky, pc, prev_speeds, prev_signs, current_date, end_dt,
                   start_dt, natal_chart, partner_chart, events, days, second>>

\* The caller has the result
CallReturn ==
    /\ call.op # "none"
    /\ call' = [op |-> "none"]
    /\ UNCHANGED <<env, sky, pc, prev_speeds, prev_signs, current_date, end_dt,
                   start_dt, natal_chart, partner_chart, events, days, second>>

InitHouses == env = BaseEnv /\ Idle

NextHouses == CallGetPlanetHouse \/ CallMapPlanetToNatalHouse \/ CallReturn

SpecHouses == InitHouses /\ [][NextHouses]_vars

-----------------------------------------------------------------------------
(* C14 *)

\* A call of the House Mapper, of either entry, with a longitude
MapperCall ==
    /\ call.op \in {"_get_planet_house", "map_planet_to_natal_house"}
    /\ call.planet_longitude # <<>>

\* The house of the call's result (0: None)
ResultHouse ==
    IF call.op = "map_planet_to_natal_house" THEN call.result
    ELSE IF call.result = <<>> THEN 0 ELSE call.result[1]

\* The call's dict holds all of House1..House12
AllTwelve ==
    /\ Len(call.house_cusps) = 12
    /\ \A i \in 1..12 : HasHouse(call.house_cusps, HouseNames[i])

\* cusp(i) and cusp(i+1) of the call's dict, the pair 12 -> 1 included
Cusp(i) == CuspAt(call.house_cusps, HouseNames[i])
CuspAfter(i) == Cusp((i % 12) + 1)

\* A valid set of 12 cusps: within [0, 360), increasing in house order
\* but for exactly one pair, where it wraps past 0
ValidCusps ==
    /\ AllTwelve
    /\ \A i \in 1..12 : Cusp(i) >= 0 /\ Cusp(i) < FullCircle
    /\ Cardinality({i \in 1..12 : CuspAfter(i) < Cusp(i)}) = 1
    /\ \A i \in 1..12 : CuspAfter(i) # Cusp(i)

\* The point lies on the arc that runs forward from cusp(i) up to, and
\* without, cusp(i+1)
OnArcOf(i, point) ==
    (point + FullCircle - Cusp(i)) % FullCircle
      < (CuspAfter(i) + FullCircle - Cusp(i)) % FullCircle

\* C14: under a valid set of 12 cusps every longitude in [0, 360) gets
\* exactly one house of 1..12: exactly one consecutive cusp pair of the
\* walk matches, the result is the house on whose arc the point lies, and
\* a longitude equal to cusp(i) gets house i, not i - 1.
C14_OneHousePerLongitude ==
    (/\ MapperCall
     /\ ValidCusps
     /\ call.planet_longitude[1] >= 0
     /\ call.planet_longitude[1] < FullCircle) =>
       /\ Cardinality(HoldingRounds(HouseCuspList(call.house_cusps, 12),
                                    call.planet_longitude[1])) = 1
       /\ ResultHouse \in 1..12
       /\ \A i \in 1..12 :
            OnArcOf(i, call.planet_longitude[1]) <=> ResultHouse = i
       /\ \A i \in 1..12 :
            call.planet_longitude[1] = Cusp(i) => ResultHouse = i

\* A longitude on the cusp of the house that wraps past 0, under uneven
\* cusps, in that house
C14_Witness ==
    /\ MapperCall
    /\ ValidCusps
    /\ call.house_cusps = HouseDict(CuspRun(Deg(100), UnevenWidths))
    /\ \E i \in 1..12 :
         /\ CuspAfter(i) < Cusp(i)
         /\ call.planet_longitude[1] = Cusp(i)
         /\ ResultHouse = i

-----------------------------------------------------------------------------
(* C15 *)

\* The point of the call, within [0, 360)
Point == call.planet_longitude[1] % FullCircle

\* The condition under which the point belongs to house i
InHouseOrder(i) ==
    \/ Cusp(i) <= Point /\ Point < CuspAfter(i)
    \/ CuspAfter(i) < Cusp(i) /\ (Point >= Cusp(i) \/ Point < CuspAfter(i))

\* C15: the House Mapper walks the cusps in the house order 1..12, never
\* sorted by longitude, and gives the point the first house i with
\* cusp(i) <= point < cusp(i+1) or, where cusp(i+1) < cusp(i), with
\* point >= cusp(i) or point < cusp(i+1), the pair 12 -> 1 included.  With
\* House12 at 350 and House1 at 10, a point at 5 is in house 12 and a point
\* at 15 in house 1.
C15_WalkInHouseOrder ==
    (MapperCall /\ AllTwelve) =>
       /\ \A i \in 1..12 :
            (InHouseOrder(i) /\ \A j \in 1..(i - 1) : ~InHouseOrder(j))
              => ResultHouse = i
       /\ (Cusp(12) = Deg(350) /\ Cusp(1) = Deg(10)) =>
            /\ Point = Deg(5) => ResultHouse = 12
            /\ Point = Deg(15) => ResultHouse = 1

\* The point at 5 under House12 at 350 and House1 at 10, in house 12
C15_Witness ==
    /\ MapperCall
    /\ call.house_cusps = ExampleCusps
    /\ call.planet_longitude = <<Deg(5)>>
    /\ ResultHouse = 12

\* A point that a walk sorted by longitude would put elsewhere: cusps 3 and
\* 4 exchanged, the point between them, in house 2
C15_WitnessUnsorted ==
    /\ MapperCall
    /\ AllTwelve
    /\ Cusp(4) < Cusp(3)
    /\ Cusp(4) < Point /\ Point < Cusp(3)
    /\ ResultHouse = 2

-----------------------------------------------------------------------------
(* C16 *)

\* The houses the call's dict supplies
SuppliedHouses == {i \in 1..12 : HasHouse(call.house_cusps, HouseNames[i])}

\* No consecutive pair of the supplied cusps contains the point
NoPairContains ==
    HoldingRounds(HouseCuspList(call.house_cusps, 12), Point) = {}

\* The distance around the circle, the shorter way
AngularDistance(a, b) ==
    Min2((a + FullCircle - b) % FullCircle, (b + FullCircle - a) % FullCircle)

\* C16: for any non-empty cusp set and any longitude the mapper does not
\* raise and gives a definite house among the supplied ones; when no
\* consecutive pair contains the point, as with all cusps equal, it is a
\* house whose cusp is closest to the point around the circle.
C16_FallbackGivesSuppliedHouse ==
    (MapperCall /\ SuppliedHouses # {}) =>
       /\ ResultHouse \in SuppliedHouses
       /\ NoPairContains =>
            \A j \in SuppliedHouses :
              AngularDistance(Cusp(ResultHouse) % FullCircle, Point)
                <= AngularDistance(Cusp(j) % FullCircle, Point)

\* All twelve cusps equal and the point elsewhere: no pair contains it, and
\* _get_planet_house gives a house
C16_Witness ==
    /\ call.op = "_get_planet_house"
    /\ call.planet_longitude # <<>>
    /\ AllTwelve
    /\ \A i \in 1..12 : Cusp(i) = Deg(77)
    /\ Point = Deg(5)
    /\ NoPairContains
    /\ call.result = <<1>>

-----------------------------------------------------------------------------
(* aspects_engine.  A chart here keeps its planets in dict order:          *)
(* [planets |-> sequence of <<name, [longitude |-> Optional]>>,            *)
(*  angles |-> [Ascendant |-> Optional, MC |-> Optional]].  Points are a   *)
(* sequence of <<name, longitude>> pairs in dict order.                    *)

outer_planets == {"Uranus", "Neptune", "Pluto"}

\* The orbs, were the wide outer_minor below the exact one
OrbBandsTightened(use_wider_orbs) ==
    IF use_wider_orbs
    THEN [major_orb |-> Deg(10), minor_orb |-> Deg(6),
          outer_major |-> Deg(6), outer_minor |-> Deg(3)]
    ELSE [major_orb |-> Deg(8), minor_orb |-> Deg(5),
          outer_major |-> Deg(5), outer_minor |-> Deg(4)]

\* The four orbs set at the top of _get_orb_for_aspect
OrbBands(use_wider_orbs) ==
    IF use_wider_orbs
    THEN [major_orb |-> Deg(10), minor_orb |-> Deg(6),
          outer_major |-> Deg(6), outer_minor |-> Deg(5)]
    ELSE [major_orb |-> Deg(8), minor_orb |-> Deg(5),
          outer_major |-> Deg(5), outer_minor |-> Deg(4)]

\* The choice among the four orbs, were only planet1 looked up among the
\* outer planets
OrbOfBandsFirstOnly(planet1, planet2, aspect_type, bands) ==
    IF aspect_type \in {"conjunction", "opposition", "square"}
    THEN (IF planet1 \in outer_planets THEN bands.outer_major
          ELSE bands.major_orb)
    ELSE (IF planet1 \in outer_planets THEN bands.outer_minor
          ELSE bands.minor_orb)

\* The choice among the four orbs, were the trine among the major kinds
OrbOfBandsTrineMajor(planet1, planet2, aspect_type, bands) ==
    IF aspect_type \in {"conjunction", "opposition", "square", "trine"}
    THEN (IF planet1 \in outer_planets \/ planet2 \in outer_planets
          THEN bands.outer_major ELSE bands.major_orb)
    ELSE (IF planet1 \in outer_planets \/ planet2 \in outer_planets
          THEN bands.outer_minor ELSE bands.minor_orb)

\* The choice among the four orbs
OrbOfBands(planet1, planet2, aspect_type, bands) ==
    IF aspect_type \in {"conjunction", "opposition", "square"}
    THEN (IF planet1 \in outer_planets \/ planet2 \in outer_planets
          THEN bands.outer_major ELSE bands.major_orb)
    ELSE (IF planet1 \in outer_planets \/ planet2 \in outer_planets
          THEN bands.outer_minor ELSE bands.minor_orb)

get_orb_for_aspect(planet1, planet2, aspect_type, use_wider_orbs) ==
    OrbOfBands(planet1, planet2, aspect_type, OrbBands(use_wider_orbs))

calculate_angle(longitude1, longitude2) ==
    Min2(Abs(longitude1 - longitude2) % FullCircle,
         FullCircle - (Abs(longitude1 - longitude2) % FullCircle))

\* The list the three loops over aspect kinds run through
AspectIdeals ==
    << <<"conjunction", Deg(0)>>, <<"opposition", Deg(180)>>,
       <<"square", Deg(90)>>, <<"trine", Deg(120)>>, <<"sextile", Deg(60)>> >>

\* The test `orb <= max_orb`, were a degree more let through
WithinOrbAndOne(orb, max_orb) == orb <= max_orb + Deg(1)

\* The test `orb <= max_orb`, were 25 degrees more let through
WithinOrbAndMany(orb, max_orb) == orb <= max_orb + Deg(25)

\* The test `orb <= max_orb`
WithinOrb(orb, max_orb) == orb <= max_orb

\* The dict appended for a pair and a kind, under the keys of the function
AspectDict(key1, key2, p1, p2, aspect_name, angle, orb) ==
    [k \in {key1, key2, "aspect", "angle", "orb"} |->
       CASE k = key1 -> p1
         [] k = key2 -> p2
         [] k = "aspect" -> aspect_name
         [] k = "angle" -> Round2(angle)
         [] OTHER -> Round2(orb)]

\* One round of the loop over aspect kinds: what it appends.  `guarded` is
\* the test `orb <= 180` that calculate_synastry_aspects puts before.
KindStep(key1, key2, p1, p2, angle, use_wider_orbs, guarded, kind) ==
    IF /\ guarded => Abs(angle - kind[2]) <= Deg(180)
       /\ WithinOrb(Abs(angle - kind[2]),
                    get_orb_for_aspect(p1, p2, kind[1], use_wider_orbs))
    THEN <<AspectDict(key1, key2, p1, p2, kind[1], angle,
                      Abs(angle - kind[2]))>>
    ELSE <<>>

RECURSIVE KindSteps(_, _, _, _, _, _, _, _)
KindSteps(key1, key2, p1, p2, angle, use_wider_orbs, guarded, n) ==
    IF n = 0 THEN <<>>
    ELSE KindSteps(key1, key2, p1, p2, angle, use_wider_orbs, guarded, n - 1)
         \o KindStep(key1, key2, p1, p2, angle, use_wider_orbs, guarded,
                     AspectIdeals[n])

\* The body of the loops over two points
PairStep(key1, key2, point1, point2, use_wider_orbs, guarded) ==
    KindSteps(key1, key2, point1[1], point2[1],
              calculate_angle(point1[2], point2[2]), use_wider_orbs, guarded,
              Len(AspectIdeals))

\* The list as the loops leave it, were it not sorted
LeftAsAppended(aspects) == aspects

\* aspects.sort(key=lambda x: x["orb"]): a stable sort
SortByOrb(aspects) == SortSeq(aspects, LAMBDA a, b : a["orb"] < b["orb"])

\* for j in range(i + 1, len(point_names)), up to j
RECURSIVE InnerPoints(_, _, _, _)
InnerPoints(points, i, j, use_wider_orbs) ==
    IF j <= i THEN <<>>
    ELSE InnerPoints(points, i, j - 1, use_wider_orbs)
         \o PairStep("planet1", "planet2", points[i], points[j],
                     use_wider_orbs, FALSE)

\* for i in range(len(point_names)), up to i
RECURSIVE OuterPoints(_, _, _)
OuterPoints(points, i, use_wider_orbs) ==
    IF i = 0 THEN <<>>
    ELSE OuterPoints(points, i - 1, use_wider_orbs)
         \o InnerPoints(points, i, Len(points), use_wider_orbs)

calculate_aspects_between_points(points, use_wider_orbs) ==
    SortByOrb(OuterPoints(points, Len(points), use_wider_orbs))

\* points[name] = value on an ordered dict: a known key keeps its place
SetPoint(points, name, value) ==
    IF \E k \in DOMAIN points : points[k][1] = name
    THEN [k \in DOMAIN points |->
             IF points[k][1] = name THEN <<name, value>> ELSE points[k]]
    ELSE Append(points, <<name, value>>)

\* The loop over chart.get("planets", {}).items(): the planets that have a
\* longitude
RECURSIVE PlanetPoints(_, _)
PlanetPoints(chart, n) ==
    IF "planets" \notin DOMAIN chart \/ n = 0 THEN <<>>
    ELSE IF chart.planets[n][2].longitude = <<>>
    THEN PlanetPoints(chart, n - 1)
    ELSE SetPoint(PlanetPoints(chart, n - 1), chart.planets[n][1],
                  chart.planets[n][2].longitude[1])

AllPlanetPoints(chart) ==
    PlanetPoints(chart, IF "planets" \in DOMAIN chart
                        THEN Len(chart.planets) ELSE 0)

\* The two ifs that add "ASC" and "MC" from chart.get("angles", {})
WithAngle(points, chart, angle_name, point_name) ==
    IF /\ "angles" \in DOMAIN chart
       /\ angle_name \in DOMAIN chart.angles
       /\ chart.angles[angle_name] # <<>>
    THEN SetPoint(points, point_name, chart.angles[angle_name][1])
    ELSE points

WithAngles(points, chart) ==
    WithAngle(WithAngle(points, chart, "Ascendant", "ASC"), chart, "MC", "MC")

calculate_natal_aspects(chart_data, use_wider_orbs) ==
    calculate_aspects_between_points(
        WithAngles(AllPlanetPoints(chart_data), chart_data), use_wider_orbs)

\* The loop over the second dict of points, up to j
RECURSIVE CrossInner(_, _, _, _, _, _, _)
CrossInner(key1, key2, point1, points2, j, use_wider_orbs, guarded) ==
    IF j = 0 THEN <<>>
    ELSE CrossInner(key1, key2, point1, points2, j - 1, use_wider_orbs, guarded)
         \o PairStep(key1, key2, point1, points2[j], use_wider_orbs, guarded)

\* The loop over the first dict of points, up to i
RECURSIVE CrossOuter(_, _, _, _, _, _, _)
CrossOuter(key1, key2, points1, points2, i, use_wider_orbs, guarded) ==
    IF i = 0 THEN <<>>
    ELSE CrossOuter(key1, key2, points1, points2, i - 1, use_wider_orbs, guarded)
         \o CrossInner(key1, key2, points1[i], points2, Len(points2),
                       use_wider_orbs, guarded)

\* The points of the user: the planets, then ASC and MC
UserPoints(user_chart) == WithAngles(AllPlanetPoints(user_chart), user_chart)

calculate_synastry_aspects(user_chart, partner, use_wider_orbs) ==
    SortByOrb(CrossOuter("planet1", "planet2", UserPoints(user_chart),
                         AllPlanetPoints(partner),
                         Len(UserPoints(user_chart)), use_wider_orbs, TRUE))

calculate_transit_aspects_to_natal(natal, transit_chart, use_wider_orbs) ==
    SortByOrb(CrossOuter("transit_planet", "natal_planet",
                         AllPlanetPoints(transit_chart), AllPlanetPoints(natal),
                         Len(AllPlanetPoints(transit_chart)), use_wider_orbs,
                         FALSE))

-----------------------------------------------------------------------------
(* Calls of the aspect functions *)

\* Pairs of point names: personal, social and outer planets, both ways
\* round, and one name twice (two charts may both hold it)
NamePairs ==
    {<<"Sun", "Moon">>, <<"Moon", "Sun">>, <<"Sun", "Uranus">>,
     <<"Uranus", "Sun">>, <<"Neptune", "Pluto">>, <<"Jupiter", "Saturn">>,
     <<"Sun", "Sun">>}

\* How far from an ideal angle the second point is put: on it, on and just
\* past each orb, where round(orb, 2) steps up to an orb, and far off
OrbOffsets ==
    {0, 3996, 4001, 5000, 5001, 6001, 8000, 8001, 10000, 10001, Deg(15)}

Separations ==
    {(AspectIdeals[k][2] + sign * offset + FullCircle) % FullCircle :
       k \in DOMAIN AspectIdeals, sign \in {-1, 1}, offset \in OrbOffsets}

NoAngles == [Ascendant |-> <<>>, MC |-> <<>>]
SomeAngles == [Ascendant |-> <<Deg(100)>>, MC |-> <<Deg(10)>>]

\* The longitude of the first point and the angles of its chart
FirstPoints == {<<0, SomeAngles>>, <<355250, NoAngles>>}

FirstLongitudes == {f[1] : f \in FirstPoints}

\* A chart with the given planets, in this order
AspectChart(planets, angles) == [planets |-> planets, angles |-> angles]

Planet(name, longitude) == <<name, [longitude |-> longitude]>>

\* One chart with the two points of the pair, a planet without longitude
\* between them
NatalInputs ==
    {AspectChart(<<Planet(names[1], <<first[1]>>), Planet("Mercury", <<>>),
                   Planet(names[2], <<(first[1] + separation) % FullCircle>>)>>,
                 first[2]) :
       names \in {n \in NamePairs : n[1] # n[2]}, first \in FirstPoints,
       separation \in Separations}

\* Two charts with one point of the pair each
CrossInputs ==
    {<<AspectChart(<<Planet(names[1], <<first[1]>>)>>, first[2]),
       AspectChart(<<Planet("Mercury", <<>>),
                     Planet(names[2], <<(first[1] + separation) % FullCircle>>)>>,
                   NoAngles)>> :
       names \in NamePairs, first \in FirstPoints, separation \in Separations}

\* The longitudes tried on _calculate_aspect_exact: around each aspect of
\* the scanner, on and just past its two orbs
ExactOffsets == {0, 500, 1000, 1001, 1500, 1501, Deg(15)}

ExactInputs ==
    {[transit_long |-> first,
      natal_long |-> (first + ASPECTS[k][2] + sign * offset + FullCircle)
                       % FullCircle,
      prev_transit_long |->
          IF step = 0 THEN <<>>
          ELSE <<(first + FullCircle - step) % FullCircle>>] :
       first \in FirstLongitudes, k \in DOMAIN ASPECTS, sign \in {-1, 1},
       offset \in ExactOffsets, step \in {0, Deg(1), -Deg(1)}}

\* The call of one of the three list functions, by name
AspectsOf(op, first, other, use_wider_orbs) ==
    CASE op = "calculate_natal_aspects" ->
           calculate_natal_aspects(first, use_wider_orbs)
      [] op = "calculate_synastry_aspects" ->
           calculate_synastry_aspects(first, other, use_wider_orbs)
      [] op = "calculate_transit_aspects_to_natal" ->
           calculate_transit_aspects_to_natal(first, other, use_wider_orbs)

CallNatalAspects ==
    /\ call.op = "none"
    /\ \E chart_data \in NatalInputs, use_wider_orbs \in BOOLEAN :
         call' = [op |-> "calculate_natal_aspects",
                  first |-> chart_data, other |-> <<>>,
                  use_wider_orbs |-> use_wider_orbs,
                  result |-> AspectsOf("calculate_natal_aspects",
                                       chart_data, <<>>, use_wider_orbs)]
    /\ UNCHANGED <<env, sky, pc, prev_speeds, prev_signs, current_date, end_dt,
                   start_dt, natal_chart, partner_chart, events, days, second>>

CallSynastryAspects ==
    /\ call.op = "none"
    /\ \E charts \in CrossInputs, use_wider_orbs \in BOOLEAN :
         call' = [op |-> "calculate_synastry_aspects",
                  first |-> charts[1], other |-> charts[2],
                  use_wider_orbs |-> use_wider_orbs,
                  result |-> AspectsOf("calculate_synastry_aspects",
                                       charts[1], charts[2], use_wider_orbs)]
    /\ UNCHANGED <<env, sky, pc, prev_speeds, prev_signs, current_date, end_dt,
                   start_dt, natal_chart, partner_chart, events, days, second>>

\* The first chart is the natal one
CallTransitAspects ==
    /\ call.op = "none"
    /\ \E charts \in CrossInputs, use_wider_orbs \in BOOLEAN :
         call' = [op |-> "calculate_transit_aspects_to_natal",
                  first |-> charts[2], other |-> charts[1],
                  use_wider_orbs |-> use_wider_orbs,
                  result |-> AspectsOf("calculate_transit_aspects_to_natal",
                                       charts[2], charts[1], use_wider_orbs)]
    /\ UNCHANGED <<env, sky, pc, prev_speeds, prev_signs, current_date, end_dt,
                   start_dt, natal_chart, partner_chart, events, days, second>>

CallAspectExact ==
    /\ call.op = "none"
    /\ \E in \in ExactInputs :
         call' = [op |-> "_calculate_aspect_exact",
                  transit_long |-> in.transit_long,
                  natal_long |-> in.natal_long,
                  prev_transit_long |-> in.prev_transit_long,
                  result |-> calculate_aspect_exact(in.transit_long,
                                 in.natal_long, in.prev_transit_long)]
    /\ UNCHANGED <<env, sky, pc, prev_speeds, prev_signs, current_date, end_dt,
                   start_dt, natal_chart, partner_chart, events, days, second>>

\* The names a point of a pair can have
PointNames == Bodies \cup {"ASC", "MC"}

CallGetOrbForAspect ==
    /\ call.op = "none"
    /\ \E planet1 \in PointNames, planet2 \in PointNames,
          aspect_type \in {AspectIdeals[k][1] : k \in DOMAIN AspectIdeals},
          use_wider_orbs \in BOOLEAN :
         call' = [op |-> "_get_orb_for_aspect",
                  planet1 |-> planet1, planet2 |-> planet2,
                  aspect_type |-> aspect_type,
                  use_wider_orbs |-> use_wider_orbs,
                  result |-> get_orb_for_aspect(planet1, planet2, aspect_type,
                                                use_wider_orbs)]
    /\ UNCHANGED <<env, sky, pc, prev_speeds, prev_signs, current_date, end_dt,
                   start_dt, natal_chart, partner_chart, events, days, second>>

InitAspects == env = BaseEnv /\ Idle

NextAspects ==
    \/ CallNatalAspects
    \/ CallSynastryAspects
    \/ CallTransitAspects
    \/ CallAspectExact
    \/ CallGetOrbForAspect
    \/ CallReturn

SpecAspects == InitAspects /\ [][NextAspects]_vars

-----------------------------------------------------------------------------
(* C17 *)

\* A call of one of the three functions that return a list of aspects
ListCall ==
    call.op \in {"calculate_natal_aspects", "calculate_synastry_aspects",
                 "calculate_transit_aspects_to_natal"}

\* The keys of the two points in the dicts of the call's list
Key1 ==
    IF call.op = "calculate_transit_aspects_to_natal"
    THEN "transit_planet" ELSE "planet1"
Key2 ==
    IF call.op = "calculate_transit_aspects_to_natal"
    THEN "natal_planet" ELSE "planet2"

\* The charts the two points of an aspect of the call come from
Chart1 ==
    IF call.op = "calculate_transit_aspects_to_natal"
    THEN call.other ELSE call.first
Chart2 ==
    IF call.op = "calculate_synastry_aspects" THEN call.other ELSE call.first

\* The longitude a chart gives the named point
PointLongitude(chart, name) ==
    CASE name = "ASC" -> chart.angles.Ascendant[1]
      [] name = "MC" -> chart.angles.MC[1]
      [] OTHER -> chart.planets[CHOOSE k \in DOMAIN chart.planets :
                                  chart.planets[k][1] = name][2].longitude[1]

\* The separation of the two points of an aspect of the call's list
SeparationOf(a) ==
    Arc(PointLongitude(Chart1, a[Key1]), PointLongitude(Chart2, a[Key2]))

\* The ideal angle of an aspect kind
IdealOf(aspect_name) ==
    CASE aspect_name = "conjunction" -> Deg(0)
      [] aspect_name = "sextile" -> Deg(60)
      [] aspect_name = "square" -> Deg(90)
      [] aspect_name = "trine" -> Deg(120)
      [] aspect_name = "opposition" -> Deg(180)

\* The orb an aspect of the call's list may have at most
MaxOrbOf(a) ==
    get_orb_for_aspect(a[Key1], a[Key2], a["aspect"], call.use_wider_orbs)

\* C17: every aspect that calculate_natal_aspects,
\* calculate_synastry_aspects and calculate_transit_aspects_to_natal return
\* has an orb of at least 0 and at most the orb _get_orb_for_aspect gives
\* for its pair, kind and wide flag; its two points are no further from the
\* ideal angle than that; and its angle is the minor arc between them,
\* within [0, 180], to two decimals.
C17_OrbWithinTolerance ==
    ListCall =>
      \A k \in DOMAIN call.result :
        /\ call.result[k]["orb"] >= 0
        /\ call.result[k]["orb"] <= MaxOrbOf(call.result[k])
        /\ Abs(SeparationOf(call.result[k]) - IdealOf(call.result[k]["aspect"]))
             <= MaxOrbOf(call.result[k])
        /\ call.result[k]["orb"]
             = Round2(Abs(SeparationOf(call.result[k])
                            - IdealOf(call.result[k]["aspect"])))
        /\ call.result[k]["angle"] = Round2(SeparationOf(call.result[k]))
        /\ call.result[k]["angle"] >= 0
        /\ call.result[k]["angle"] <= Deg(180)

\* An aspect returned with its two points exactly the largest orb from the
\* ideal angle
C17_Witness ==
    /\ ListCall
    /\ \E k \in DOMAIN call.result :
         /\ call.result[k]["orb"] = MaxOrbOf(call.result[k])
         /\ Abs(SeparationOf(call.result[k]) - IdealOf(call.result[k]["aspect"]))
              = MaxOrbOf(call.result[k])

-----------------------------------------------------------------------------
(* C18 *)

\* The list of the same call with the two points of every pair of planets
\* the other way round: the planets of the one chart in the opposite order,
\* or the two charts exchanged
SwappedResult ==
    IF call.op = "calculate_natal_aspects"
    THEN calculate_natal_aspects(
             [call.first EXCEPT !.planets = Reversed(@)], call.use_wider_orbs)
    ELSE AspectsOf(call.op, call.other, call.first, call.use_wider_orbs)

\* What a list says of the pairs of planets, whichever point comes first
Classified(list) ==
    {[pair |-> {list[k][Key1], list[k][Key2]}, aspect |-> list[k]["aspect"],
      angle |-> list[k]["angle"], orb |-> list[k]["orb"]] :
       k \in {i \in DOMAIN list :
                {list[i][Key1], list[i][Key2]} \cap {"ASC", "MC"} = {}}}

\* C18: the classification is symmetric: a pair of points (a, b) and the
\* pair (b, a) get the same kind, angle and orb, or no aspect both, with
\* the exact and with the wide orbs.
C18_SymmetricClassification ==
    ListCall => Classified(call.result) = Classified(SwappedResult)

\* An aspect of an outer planet, named second, with a planet that is not,
\* at the largest orb of its kind, found both ways round
C18_Witness ==
    /\ ListCall
    /\ \E k \in DOMAIN call.result :
         /\ call.result[k][Key1] \notin outer_planets \cup {"ASC", "MC"}
         /\ call.result[k][Key2] \in outer_planets
         /\ call.result[k]["orb"] = MaxOrbOf(call.result[k])
    /\ Classified(SwappedResult) # {}

-----------------------------------------------------------------------------
(* C19 *)

\* The list of the same call with use_wider_orbs=True
WideResult == AspectsOf(call.op, call.first, call.other, TRUE)

\* C19: every aspect found with use_wider_orbs=False is found with
\* use_wider_orbs=True too, for the same pair, of the same kind and with an
\* orb no larger; the wide mode loosens each of the four orbs and tightens
\* none.
C19_WideKeepsExactAspects ==
    /\ \A band \in DOMAIN OrbBands(FALSE) :
         OrbBands(TRUE)[band] > OrbBands(FALSE)[band]
    /\ (ListCall /\ ~call.use_wider_orbs) =>
         \A k \in DOMAIN call.result :
           \E j \in DOMAIN WideResult :
             /\ WideResult[j][Key1] = call.result[k][Key1]
             /\ WideResult[j][Key2] = call.result[k][Key2]
             /\ WideResult[j]["aspect"] = call.result[k]["aspect"]
             /\ WideResult[j]["orb"] <= call.result[k]["orb"]

\* A call with the exact orbs that finds an aspect at the largest exact
\* orb, and for which the wide orbs find more
C19_Witness ==
    /\ ListCall
    /\ ~call.use_wider_orbs
    /\ \E k \in DOMAIN call.result :
         call.result[k]["orb"] = MaxOrbOf(call.result[k])
    /\ Len(WideResult) > Len(call.result)

-----------------------------------------------------------------------------
(* C20 *)

AspectKinds == {"conjunction", "sextile", "square", "trine", "opposition"}

\* No ideal angle is closer to the separation than the one of this kind
ClosestKind(separation, ideal) ==
    \A kind \in AspectKinds :
      Abs(separation - ideal) <= Abs(separation - IdealOf(kind))

\* C20: for every pair of points the lists of calculate_natal_aspects,
\* calculate_synastry_aspects and calculate_transit_aspects_to_natal hold
\* at most one aspect, and _calculate_aspect_exact gives at most one; it is
\* of the kind whose ideal angle is closest to the separation of the pair.
C20_OneAspectPerPair ==
    /\ ListCall =>
         \A k \in DOMAIN call.result :
           /\ \A j \in DOMAIN call.result :
                (/\ call.result[j][Key1] = call.result[k][Key1]
                 /\ call.result[j][Key2] = call.result[k][Key2]) => j = k
           /\ ClosestKind(SeparationOf(call.result[k]),
                          IdealOf(call.result[k]["aspect"]))
    /\ call.op = "_calculate_aspect_exact" =>
         /\ Len(call.result) <= 1
         /\ \A k \in DOMAIN call.result :
              ClosestKind(Arc(call.transit_long, call.natal_long),
                          call.result[k].angle_deg)

\* A pair ten degrees from the square, the nearest a returned aspect comes
\* to the next kind: the list holds the square for it and nothing else
C20_Witness ==
    /\ ListCall
    /\ \E k \in DOMAIN call.result :
         /\ call.result[k]["aspect"] = "square"
         /\ call.result[k]["orb"] = Deg(10)
         /\ \A j \in DOMAIN call.result :
              (/\ call.result[j][Key1] = call.result[k][Key1]
               /\ call.result[j][Key2] = call.result[k][Key2]) => j = k

\* _calculate_aspect_exact with an aspect to give
C20_WitnessExact ==
    /\ call.op = "_calculate_aspect_exact"
    /\ Len(call.result) = 1

-----------------------------------------------------------------------------
(* Two calls of scan_period on one TransitScanner.  The second call has    *)
(* its own locals (events, start_dt, end_dt, current_date, prev_signs and  *)
(* the chart), held in `second`; self.prev_speeds is the attribute of the  *)
(* instance, the same dict for both calls.  The two calls interleave at    *)
(* whole day steps.                                                        *)

\* Mercury direct or retrograde from one day to the next
TwoScansEnv ==
    [MercuryEnv EXCEPT
       !.dom["Mercury"] = [lon0 |-> {60200}, speed |-> {-204, 204},
                           ok |-> {TRUE}],
       !.lengths = 1..(MaxDays - 1)]

\* The second call, up to the first test of its while loop
SecondStart(natal, start_date, end_date) ==
    /\ second.pc = "idle"
    /\ \E s \in Observe(sky, datetime_to_jd(SubDay(start_date))) :
         /\ sky' = s
         /\ prev_speeds' = SeedSpeeds(s, datetime_to_jd(SubDay(start_date)),
                                      prev_speeds, 1)
         /\ second' = [pc |-> "loop",
                       events |-> <<>>,
                       start_dt |-> start_date,
                       end_dt |-> end_date,
                       current_date |-> start_date,
                       natal_chart |-> natal,
                       prev_signs |->
                           SeedSigns(s, datetime_to_jd(SubDay(start_date)),
                                     <<>>, 1)]
    /\ UNCHANGED <<env, pc, prev_signs, current_date, end_dt, start_dt,
                   natal_chart, partner_chart, events, days, call>>

\* One iteration of the while loop of the second call
SecondDay ==
    /\ second.pc = "loop"
    /\ DateLeq(second.current_date, second.end_dt)
    /\ \E s \in Observe(sky, datetime_to_jd(second.current_date)) :
         \E r \in {DayResult(s, second.current_date, prev_speeds,
                             second.prev_signs, second.natal_chart, <<>>)} :
             /\ sky' = s
             /\ prev_speeds' = r.prev_speeds
             /\ second' = [second EXCEPT
                             !.prev_signs = r.prev_signs,
                             !.events = @ \o r.events,
                             !.current_date = AddDay(@)]
    /\ UNCHANGED <<env, pc, prev_signs, current_date, end_dt, start_dt,
                   natal_chart, partner_chart, events, days, call>>

\* The exit of the loop of the second call: the sort and the return
SecondReturn ==
    /\ second.pc = "loop"
    /\ ~DateLeq(second.current_date, second.end_dt)
    /\ second' = [second EXCEPT !.events = SortEvents(@), !.pc = "done"]
    /\ UNCHANGED <<env, sky, pc, prev_speeds, prev_signs, current_date, end_dt,
                   start_dt, natal_chart, partner_chart, events, days, call>>

InitTwoScans == env = TwoScansEnv /\ Idle

NextTwoScans ==
    \/ Next
    \/ \E natal \in env.charts, start_date \in env.starts, n \in env.lengths :
         SecondStart(natal, start_date, EndDate(start_date, n))
    \/ SecondDay
    \/ SecondReturn

SpecTwoScans == InitTwoScans /\ [][NextTwoScans]_vars

-----------------------------------------------------------------------------
(* C13 *)

\* What a call has stored and appended after a day, from what it had before
\* the day and what the day gives
AfterDay(before, r) ==
    [prev_speeds |-> r.prev_speeds, prev_signs |-> r.prev_signs,
     events |-> before.events \o r.events]

\* A day of a call that runs alone
AloneDay(before, s, date, natal) ==
    AfterDay(before, DayResult(s, date, before.prev_speeds, before.prev_signs,
                               natal, <<>>))

\* The first n days of a call that runs alone on a new TransitScanner,
\* under the sky s
RECURSIVE AloneDays(_, _, _, _)
AloneDays(s, start_date, natal, n) ==
    IF n = 0
    THEN [prev_speeds |-> SeedSpeeds(s, datetime_to_jd(SubDay(start_date)),
                                     <<>>, 1),
          prev_signs |-> SeedSigns(s, datetime_to_jd(SubDay(start_date)),
                                   <<>>, 1),
          events |-> <<>>]
    ELSE AloneDay(AloneDays(s, start_date, natal, n - 1), s,
                  AddDays(start_date, n - 1), natal)

\* The RETROGRADE and INGRESS events of a list
StationsAndIngresses(list) ==
    SelectSeq(list, LAMBDA e : e.type \in {"RETROGRADE", "INGRESS"})

\* The number of days from start_date to end_date, both included
DaysBetween(start_date, end_date) ==
    IF DateOrdinal(end_date) >= DateOrdinal(start_date)
    THEN DateOrdinal(end_date) - DateOrdinal(start_date) + 1 ELSE 0

\* The RETROGRADE and INGRESS events a call of these dates returns when it
\* runs alone
AloneReturns(start_date, end_date, natal) ==
    StationsAndIngresses(
        SortEvents(AloneDays(sky, start_date, natal,
                             DaysBetween(start_date, end_date)).events))

\* C13, as claimed: the state of the previous day belongs to the call: when
\* two calls of scan_period on the same TransitScanner interleave their day
\* steps, each returns the RETROGRADE and INGRESS events it returns when it
\* runs alone.  self.prev_speeds is shared by the two calls.
C13_InterleavedScansAsAlone ==
    (pc = "done" /\ second.pc = "done") =>
      /\ StationsAndIngresses(events)
           = AloneReturns(start_dt, end_dt, natal_chart)
      /\ StationsAndIngresses(second.events)
           = AloneReturns(second.start_dt, second.end_dt, second.natal_chart)

-----------------------------------------------------------------------------
(* C21 *)

\* The largest orb as the table has it: in degrees, for a kind, for a pair
\* with or without an outer body, exact or wide
TableOrb(aspect_type, outer, wide) ==
    IF aspect_type \in {"conjunction", "opposition", "square"}
    THEN (IF outer THEN (IF wide THEN 6 ELSE 5) ELSE (IF wide THEN 10 ELSE 8))
    ELSE (IF outer THEN (IF wide THEN 5 ELSE 4) ELSE (IF wide THEN 6 ELSE 5))

\* One of the two points of the call is Uranus, Neptune or Pluto
OuterPair ==
    \/ call.planet1 \in {"Uranus", "Neptune", "Pluto"}
    \/ call.planet2 \in {"Uranus", "Neptune", "Pluto"}

\* C21: the largest orb is a function of the pair and the kind: 8 (exact) or
\* 10 (wide) for conjunction, opposition and square and 5 or 6 for sextile
\* and trine when neither point is Uranus, Neptune or Pluto, and 5 or 6 and
\* 4 or 5 when one of them is; so a pair with an outer body never has more
\* than a pair without one.
C21_OrbTable ==
    call.op = "_get_orb_for_aspect" =>
      /\ call.result
           = Deg(TableOrb(call.aspect_type, OuterPair, call.use_wider_orbs))
      /\ OuterPair =>
           call.result <= get_orb_for_aspect("Sun", "Moon", call.aspect_type,
                                             call.use_wider_orbs)

\* The trine of the Sun and Pluto, exact orbs: 4 degrees
C21_Witness ==
    /\ call.op = "_get_orb_for_aspect"
    /\ call.planet1 = "Sun"
    /\ call.planet2 = "Pluto"
    /\ call.aspect_type = "trine"
    /\ ~call.use_wider_orbs
    /\ call.result = Deg(4)

-----------------------------------------------------------------------------
(* C22 *)

\* C22: each of calculate_natal_aspects, calculate_synastry_aspects and
\* calculate_transit_aspects_to_natal returns its aspects in ascending
\* order of orb, the tightest first.
C22_AscendingOrb ==
    ListCall =>
      \A k \in DOMAIN call.result : \A j \in DOMAIN call.result :
        k < j => call.result[k]["orb"] <= call.result[j]["orb"]

\* A list of several aspects whose tightest one, of ASC and MC, is of the
\* pair the loops reach last
C22_Witness ==
    /\ ListCall
    /\ Len(call.result) >= 3
    /\ call.result[1]["planet1"] = "ASC"
    /\ call.result[1]["planet2"] = "MC"
    /\ call.result[1]["orb"] < call.result[2]["orb"]

-----------------------------------------------------------------------------
(* Calls of _normalize_angle and _decimal_to_dms *)

\* The whole turns below 0 and above 360 that the longitudes tried reach
AngleTurns == 2

\* The parts of a degree tried: none, the least, where the minutes round
\* up or down, and where they round to 60
DegreeParts == {0, 1, 8, 9, 491, 492, 500, 991, 992, 999}

\* The longitudes tried: at and around every sign border and in the middle
\* of every sign, on the circle and AngleTurns turns to either side
AngleInputs ==
    {turn * FullCircle + sign_index * Deg(30) + whole * Deg(1) + part :
       turn \in (0 - AngleTurns)..AngleTurns, sign_index \in 0..11,
       whole \in {0, 14, 29}, part \in DegreeParts}

CallNormalizeAngle ==
    /\ call.op = "none"
    /\ \E angle \in AngleInputs :
         call' = [op |-> "_normalize_angle", angle |-> angle,
                  result |-> normalize_angle(angle)]
    /\ UNCHANGED <<env, sky, pc, prev_speeds, prev_signs, current_date, end_dt,
                   start_dt, natal_chart, partner_chart, events, days, second>>

CallDecimalToDms ==
    /\ call.op = "none"
    /\ \E longitude \in AngleInputs :
         call' = [op |-> "_decimal_to_dms", longitude |-> longitude,
                  result |-> decimal_to_dms(longitude)]
    /\ UNCHANGED <<env, sky, pc, prev_speeds, prev_signs, current_date, end_dt,
                   start_dt, natal_chart, partner_chart, events, days, second>>

InitAngles == env = BaseEnv /\ Idle

NextAngles == CallNormalizeAngle \/ CallDecimalToDms \/ CallReturn

SpecAngles == InitAngles /\ [][NextAngles]_vars

-----------------------------------------------------------------------------
(* C23 *)

\* C23: for every longitude L, negative values and values of 360 or more
\* included, _normalize_angle(L) is in [0, 360), differs from L by whole
\* turns, and is left as it is by _normalize_angle.
C23_NormalizeIntoCircle ==
    call.op = "_normalize_angle" =>
      /\ call.result >= 0
      /\ call.result < FullCircle
      /\ \E turn \in (0 - AngleTurns - 1)..(AngleTurns + 1) :
           call.angle = call.result + turn * FullCircle
      /\ normalize_angle(call.result) = call.result

\* A negative longitude and one of 360 or more, each more than a turn away
C23_Witness ==
    /\ call.op = "_normalize_angle"
    /\ call.angle >= 2 * FullCircle
    /\ call.result = Deg(29) + 999

C23_WitnessNegative ==
    /\ call.op = "_normalize_angle"
    /\ call.angle < 0 - FullCircle
    /\ call.result = Deg(29) + 999

-----------------------------------------------------------------------------
(* C24 *)

\* The minute of the circle a longitude rounds to: its whole degrees, with
\* the minutes of the rest rounded, and 60 minutes taken as the next degree
\* (the degree after 359 is 0)
RoundedMinutes(lon) == PyRound((lon % Deg(1)) * 60, Deg(1))
RoundedDegree(lon) ==
    IF RoundedMinutes(lon) = 60
    THEN ((lon \div Deg(1)) + 1) % 360 ELSE lon \div Deg(1)

\* The longitude of the call, on the circle
OnCircle == call.longitude % FullCircle

\* C24: for every longitude _decimal_to_dms gives deg in 0..29, min in
\* 0..59 and one of the 12 signs: minutes that round to 60 become 0 with
\* the degree one more, and a degree that reaches 30 becomes 0 with the
\* sign the next one, Aries after Pisces.
C24_DmsCarries ==
    call.op = "_decimal_to_dms" =>
      /\ call.result.deg \in 0..29
      /\ call.result.min \in 0..59
      /\ \E i \in 1..12 : call.result.sign = signs[i]
      /\ call.result.min
           = (IF RoundedMinutes(OnCircle) = 60 THEN 0
              ELSE RoundedMinutes(OnCircle))
      /\ call.result.deg = RoundedDegree(OnCircle) % 30
      /\ call.result.sign = signs[(RoundedDegree(OnCircle) \div 30) + 1]

\* 29 degrees 59.52 minutes of Pisces: Aries 0 degrees 0 minutes
C24_Witness ==
    /\ call.op = "_decimal_to_dms"
    /\ OnCircle = FullCircle - 8
    /\ call.result = [sign |-> "Aries", deg |-> 0, min |-> 0]

-----------------------------------------------------------------------------
(* AstrologyEngine._datetime_to_utc.  A date string is held as its         *)
(* separator and the three numbers between the separators, a time string   *)
(* as the numbers between its colons, a datetime as [date, hour, minute,   *)
(* second].  utcoffset values are whole minutes east of UTC.  The zone     *)
(* database is the world's: `rule` is the utcoffset tz.localize gives the  *)
(* naive datetime in the zone found.                                       *)

\* date.replace("/", "-")
DateClean(date) == [sep |-> "-", parts |-> date.parts]

\* datetime(year, month, day, hour, minute, second) raises ValueError
ValidDatetime(year, month, day, hour, minute, sec) ==
    /\ month \in 1..12
    /\ day \in 1..DaysInMonth(year, month)
    /\ hour \in 0..23 /\ minute \in 0..59 /\ sec \in 0..59

\* time_parts[i] if len(time_parts) > i else 0
TimePart(time_parts, i) == IF Len(time_parts) > i THEN time_parts[i + 1] ELSE 0

\* local_dt.astimezone(pytz.UTC): the same instant, utcoffset minutes back
astimezone_utc(local_dt, utcoffset) ==
    LET total == local_dt.hour * 60 + local_dt.minute - utcoffset
        date  == IF total < 0 THEN SubDay(local_dt.date)
                 ELSE IF total >= 1440 THEN AddDay(local_dt.date)
                 ELSE local_dt.date
    IN  [date |-> date, hour |-> (total % 1440) \div 60,
         minute |-> total % 60, second |-> local_dt.second]

\* The utcoffset, were every zone localized by the database
UtcOffsetOfDatabase(timezone_str, year, rule) ==
    IF timezone_str = "UTC" THEN 0 ELSE rule

\* The utcoffset of local_dt: 120 of pytz.FixedOffset(120) for Europe/Sofia
\* before 1979, 0 of pytz.UTC, else the database's
UtcOffset(timezone_str, year, rule) ==
    IF timezone_str = "Europe/Sofia" /\ year < 1979 THEN 120
    ELSE IF timezone_str = "UTC" THEN 0
    ELSE rule

\* found is what tf.timezone_at answers: <<>> for None
datetime_to_utc(date, time, found, rule) ==
    LET parts        == DateClean(date).parts
        hour         == time[1]
        minute       == TimePart(time, 1)
        second_      == TimePart(time, 2)
        timezone_str == IF found = <<>> THEN "UTC" ELSE found[1]
    IN  IF ~ValidDatetime(parts[1], parts[2], parts[3], hour, minute, second_)
        THEN Raise
        ELSE [raised |-> FALSE,
              utc_dt |-> astimezone_utc(
                           [date |-> parts, hour |-> hour, minute |-> minute,
                            second |-> second_],
                           UtcOffset(timezone_str, parts[1], rule)),
              timezone_str |-> timezone_str]

-----------------------------------------------------------------------------
(* AstrologyEngine._calculate_houses.  The answer of swe.houses is held as *)
(* [raises, cusps, ascmc]; element i of a Python list is element i + 1 of  *)
(* the sequence.                                                           *)

\* The houses dict, were a 13-element array read like a 12-element one
HousesFromFirst(cusps) ==
    [i \in 1..Min2(Len(cusps), 12) |-> <<HouseNames[i], cusps[i]>>]

\* The houses dict built from the array of cusps
HousesOfCusps(cusps) ==
    IF Len(cusps) = 12 THEN [i \in 1..12 |-> <<HouseNames[i], cusps[i]>>]
    ELSE IF Len(cusps) >= 13
    THEN [i \in 1..12 |-> <<HouseNames[i], cusps[i + 1]>>]
    ELSE [i \in 1..Len(cusps) |-> <<HouseNames[i], cusps[i]>>]

\* Any exception of the try leaves as a RuntimeError (or, when swe.houses
\* itself raised, as the NameError of the handler's print)
calculate_houses(answer) ==
    IF answer.raises \/ Len(answer.ascmc) < 2 THEN Raise
    ELSE [raised |-> FALSE,
          houses |-> HousesOfCusps(answer.cusps),
          Ascendant |-> answer.ascmc[1],
          MC |-> answer.ascmc[2],
          Ascendant_formatted |-> decimal_to_dms(answer.ascmc[1]),
          MC_formatted |-> decimal_to_dms(answer.ascmc[2]),
          Ascendant_sign |-> decimal_to_dms(answer.ascmc[1]).sign,
          MC_sign |-> decimal_to_dms(answer.ascmc[2]).sign]

-----------------------------------------------------------------------------
(* AstrologyEngine.calculate_chart.  An answer of swe.calc_ut is held as   *)
(* [raises, ret_flag, xx], xx[1] an Optional longitude; the planets dict   *)
(* as the sequence of its <<name, entry>> in the order of insertion; a key *)
(* "house" that was never set as house = <<>>, one that was set as         *)
(* <<value>>.                                                              *)

PLANETS == <<"Sun", "Moon", "Mercury", "Venus", "Mars", "Jupiter", "Saturn",
             "Uranus", "Neptune", "Pluto", "Node", "Chiron">>

\* _datetime_to_julian_day, in seconds since JD 2451545.0
datetime_to_julian_day(dt) ==
    86400 * (JulianDayNumber(dt.date) - 2451545) - 43200
      + dt.hour * 3600 + dt.minute * 60 + dt.second

\* _calculate_planet_position, were ret_flag not looked at
PositionUnchecked(answer) ==
    IF answer.raises \/ Len(answer.xx) < 4 THEN Raise
    ELSE [raised |-> FALSE, longitude |-> answer.xx[1],
          speed |-> answer.xx[4], distance |-> answer.xx[3]]

\* _calculate_planet_position: every exception of the try, the RuntimeError
\* of a negative flag and the IndexError of a short xx too, leaves as a
\* RuntimeError
calculate_planet_position(answer) ==
    IF answer.raises \/ answer.ret_flag < 0 \/ Len(answer.xx) < 4 THEN Raise
    ELSE [raised |-> FALSE, longitude |-> answer.xx[1],
          speed |-> answer.xx[4], distance |-> answer.xx[3]]

NonePlanet ==
    [longitude |-> <<>>, speed |-> <<>>, distance |-> <<>>,
     zodiac_sign |-> <<>>, formatted_pos |-> <<>>, house |-> <<>>]

\* The entry of one body after the first loop
PlanetEntry(position) ==
    IF position.raised \/ position.longitude = <<>> THEN NonePlanet
    ELSE [longitude |-> position.longitude, speed |-> <<position.speed>>,
          distance |-> <<position.distance>>,
          zodiac_sign |-> <<decimal_to_dms(position.longitude[1]).sign>>,
          formatted_pos |-> <<decimal_to_dms(position.longitude[1])>>,
          house |-> <<>>]

\* The entry after the second loop
WithHouse(entry, house_cusps) ==
    IF entry.longitude = <<>> THEN entry
    ELSE [entry EXCEPT
            !.house = <<get_planet_house(entry.longitude, house_cusps)>>]

\* The rest of calculate_chart, once dt_utc and house_data are there
ChartOfParts(date, time, lat, lon, utc, positions, house_data) ==
    IF utc.raised \/ house_data.raised THEN Raise
    ELSE [raised |-> FALSE,
          planets |->
            [i \in 1..Len(PLANETS) |->
               <<PLANETS[i],
                 WithHouse(PlanetEntry(
                             calculate_planet_position(positions[PLANETS[i]])),
                           house_data.houses)>>],
          houses |-> house_data.houses,
          angles |-> [Ascendant |-> house_data.Ascendant,
                      MC |-> house_data.MC,
                      Ascendant_formatted |-> house_data.Ascendant_formatted,
                      MC_formatted |-> house_data.MC_formatted,
                      Ascendant_sign |-> house_data.Ascendant_sign,
                      MC_sign |-> house_data.MC_sign],
          julian_day |-> datetime_to_julian_day(utc.utc_dt),
          datetime_utc |-> utc.utc_dt,
          timezone |-> utc.timezone_str,
          datetime_local |-> <<date, time>>,
          location |-> [latitude |-> lat, longitude |-> lon]]

\* place is [lat, lon, found, rule]: the coordinates with what the zone
\* finder and the zone database answer for them
calculate_chart(date, time, place, positions, house_answer) ==
    ChartOfParts(date, time, place.lat, place.lon,
                 datetime_to_utc(date, time, place.found, place.rule),
                 positions, calculate_houses(house_answer))

-----------------------------------------------------------------------------
(* Calls of the chart functions of the engine *)

\* The arrays of cusps a provider may answer with for 12 cusps: the 12
\* alone, or after a placeholder at index 0
CuspShapes(cusps) ==
    {cusps, <<0>> \o cusps, <<cusps[12]>> \o cusps}

\* The answers of swe.houses tried: cusps around the circle in either shape
\* with ASC and MC, an array too short, a failure
HouseAnswers ==
    {[raises |-> FALSE, cusps |-> shape,
      ascmc |-> <<run[1], run[10], 0, 0>>] :
       run \in {CuspRun(start, widths) :
                  start \in CuspStarts,
                  widths \in {EvenWidths, UnevenWidths, TightWidths}},
       shape \in UNION {CuspShapes(CuspRun(start, widths)) :
                          start \in CuspStarts,
                          widths \in {EvenWidths, UnevenWidths, TightWidths}}}
    \cup {[raises |-> FALSE, cusps |-> SubSeq(Cusps1, 1, 5),
           ascmc |-> <<Cusps1[1], Cusps1[10]>>],
          [raises |-> FALSE, cusps |-> Cusps1, ascmc |-> <<>>],
          [raises |-> TRUE, cusps |-> <<>>, ascmc |-> <<>>]}

CallCalculateHouses ==
    /\ call.op = "none"
    /\ \E answer \in HouseAnswers :
         call' = [op |-> "_calculate_houses", answer |-> answer,
                  result |-> calculate_houses(answer)]
    /\ UNCHANGED <<env, sky, pc, prev_speeds, prev_signs, current_date, end_dt,
                   start_dt, natal_chart, partner_chart, events, days, second>>

\* The zones tf.timezone_at finds (<<>> for None) with the utcoffsets the
\* database has for them: Sofia in CET, EET and EEST, London in GMT and BST,
\* New York in EST and EDT
ZoneRules ==
    {<<<<>>, 0>>}
    \cup {<<<<"Europe/Sofia">>, rule>> : rule \in {60, 120, 180}}
    \cup {<<<<"Europe/London">>, rule>> : rule \in {0, 60}}
    \cup {<<<<"America/New_York">>, rule>> : rule \in {-300, -240}}

\* Date strings around 1979, at the ends of a year and of February, one of
\* them no day of the calendar
DateStrings ==
    {[sep |-> sep, parts |-> <<year, md[1], md[2]>>] :
       sep \in {"-", "/"}, year \in {1943, 1978, 1979, 2024},
       md \in {<<1, 1>>, <<12, 31>>, <<3, 1>>, <<2, 30>>}}

\* Time strings of one, two and three parts
TimeStrings == {<<12>>, <<0, 30>>, <<1, 59, 59>>, <<23, 30, 15>>}

CallDatetimeToUtc ==
    /\ call.op = "none"
    /\ \E date \in DateStrings, time \in TimeStrings, zone \in ZoneRules :
         call' = [op |-> "_datetime_to_utc", date |-> date, time |-> time,
                  found |-> zone[1], rule |-> zone[2],
                  result |-> datetime_to_utc(date, time, zone[1], zone[2])]
    /\ UNCHANGED <<env, sky, pc, prev_speeds, prev_signs, current_date, end_dt,
                   start_dt, natal_chart, partner_chart, events, days, second>>

\* Answers of swe.calc_ut for the twelve bodies, none failing
BasePositions ==
    [b \in Range(PLANETS) |->
       [raises |-> FALSE, ret_flag |-> 258,
        xx |-> << << CASE b = "Sun"     -> 10004
                       [] b = "Moon"    -> 69500
                       [] b = "Mercury" -> 100200
                       [] b = "Venus"   -> Deg(129)
                       [] b = "Mars"    -> Deg(218)
                       [] b = "Jupiter" -> 190300
                       [] b = "Saturn"  -> Deg(285)
                       [] b = "Uranus"  -> Deg(15)
                       [] b = "Neptune" -> Deg(345)
                       [] b = "Pluto"   -> Deg(45)
                       [] b = "Node"    -> FullCircle - 1
                       [] OTHER         -> 0 >>,
                  0, 1000, IF b = "Node" THEN -53 ELSE 985, 0, 0>>]]

\* What calc_ut may do instead for a body: raise, answer a negative flag,
\* answer an xx too short, answer no longitude
FailingAnswers ==
    {[raises |-> TRUE, ret_flag |-> 0, xx |-> <<>>],
     [raises |-> FALSE, ret_flag |-> -1, xx |-> <<<<0>>, 0, 0, 0, 0, 0>>],
     [raises |-> FALSE, ret_flag |-> 258, xx |-> <<<<Deg(77)>>, 0, 1000>>],
     [raises |-> FALSE, ret_flag |-> 258, xx |-> <<<<>>, 0, 1000, 985, 0, 0>>]}

PositionSets ==
    {BasePositions}
    \cup {[BasePositions EXCEPT ![b] = answer] :
            b \in Range(PLANETS), answer \in FailingAnswers}
    \cup {[b \in Range(PLANETS) |->
             IF b \in failing
             THEN [raises |-> TRUE, ret_flag |-> 0, xx |-> <<>>]
             ELSE BasePositions[b]] :
            failing \in {{"Sun", "Chiron"}, Range(PLANETS)}}

ChartHouseAnswers ==
    {[raises |-> FALSE, cusps |-> Cusps1, ascmc |-> <<Cusps1[1], Cusps1[10]>>],
     [raises |-> FALSE,
      cusps |-> <<0>> \o CuspRun(Deg(352), UnevenWidths),
      ascmc |-> <<Deg(352), Deg(262), 0, 0>>],
     [raises |-> FALSE, cusps |-> SubSeq(Cusps1, 1, 5),
      ascmc |-> <<Cusps1[1], Cusps1[10]>>],
     [raises |-> TRUE, cusps |-> <<>>, ascmc |-> <<>>]}

\* A birth in Sofia in 1978, and a date string that is no day
ChartMoments ==
    {<<[sep |-> "-", parts |-> <<1978, 6, 15>>], <<12, 30>>,
       [lat |-> 42698, lon |-> 23322, found |-> <<"Europe/Sofia">>,
        rule |-> 120]>>,
     <<[sep |-> "/", parts |-> <<2024, 2, 30>>], <<0, 30>>,
       [lat |-> 42698, lon |-> 23322, found |-> <<"Europe/Sofia">>,
        rule |-> 120]>>}

CallCalculateChart ==
    /\ call.op = "none"
    /\ \E moment \in ChartMoments, positions \in PositionSets,
          house_answer \in ChartHouseAnswers :
         call' = [op |-> "calculate_chart", date |-> moment[1],
                  time |-> moment[2], place |-> moment[3],
                  positions |-> positions, house_answer |-> house_answer,
                  result |-> calculate_chart(moment[1], moment[2], moment[3],
                                             positions, house_answer)]
    /\ UNCHANGED <<env, sky, pc, prev_speeds, prev_signs, current_date, end_dt,
                   start_dt, natal_chart, partner_chart, events, days, second>>

InitChart == env = BaseEnv /\ Idle

NextChart ==
    CallCalculateHouses \/ CallDatetimeToUtc \/ CallCalculateChart \/ CallReturn

SpecChart == InitChart /\ [][NextChart]_vars

-----------------------------------------------------------------------------
(* C26 *)

\* A call of _calculate_houses that returns, on an array of 12 or 13 cusps
HousesCall ==
    /\ call.op = "_calculate_houses"
    /\ ~call.result.raised
    /\ Len(call.answer.cusps) \in {12, 13}

\* C26: _calculate_houses returns exactly the 12 entries House1..House12
\* for both shapes of the provider's array: of 12 elements House i is
\* element i - 1, of 13 elements element 0 is skipped and House i is
\* element i; the two shapes with the same 12 cusps give the same houses.
C26_TwelveHousesEitherShape ==
    HousesCall =>
      /\ Len(call.result.houses) = 12
      /\ \A i \in 1..12 :
           /\ call.result.houses[i][1] = HouseNames[i]
           /\ call.result.houses[i][2]
                = call.answer.cusps[IF Len(call.answer.cusps) = 12
                                    THEN (i - 1) + 1 ELSE i + 1]
      /\ Len(call.answer.cusps) = 13 =>
           call.result.houses = HousesOfCusps(Tail(call.answer.cusps))

\* An array of 13 elements whose element 0 is none of its cusps: House1 is
\* element 1
C26_Witness ==
    /\ HousesCall
    /\ Len(call.answer.cusps) = 13
    /\ call.answer.cusps[1] # call.answer.cusps[2]
    /\ call.result.houses[1] = <<"House1", call.answer.cusps[2]>>
    /\ call.result.houses[12] = <<"House12", call.answer.cusps[13]>>

-----------------------------------------------------------------------------
(* C27 *)

\* A call of _datetime_to_utc that returns, with a zone found
UtcCall ==
    /\ call.op = "_datetime_to_utc"
    /\ ~call.result.raised
    /\ call.found # <<>>

SofiaBefore1979 ==
    call.found[1] = "Europe/Sofia" /\ call.date.parts[1] < 1979

\* Minutes since 1970-01-01 00:00 of a datetime's own clock
MinuteCount(dt) == DateOrdinal(dt.date) * 1440 + dt.hour * 60 + dt.minute

\* The local datetime the strings of the call say
LocalOfCall ==
    [date |-> call.date.parts, hour |-> call.time[1],
     minute |-> IF Len(call.time) > 1 THEN call.time[2] ELSE 0,
     second |-> IF Len(call.time) > 2 THEN call.time[3] ELSE 0]

\* C27: _datetime_to_utc converts a local datetime of Europe/Sofia in a
\* year before 1979 with UTC = local - 2 h whatever the zone database says,
\* every other zone and every Sofia date from 1979 on with the database's
\* rule, and reports the zone found in both cases.
C27_SofiaFixedBefore1979 ==
    UtcCall =>
      /\ call.result.timezone_str = call.found[1]
      /\ call.result.utc_dt.second = LocalOfCall.second
      /\ call.result.utc_dt.hour \in 0..23
      /\ call.result.utc_dt.minute \in 0..59
      /\ MinuteCount(call.result.utc_dt)
           = MinuteCount(LocalOfCall)
               - (IF SofiaBefore1979 THEN 120 ELSE call.rule)

\* Half past midnight in Sofia on 1 January 1943, when the database has
\* CET: UTC is 22:30 of 31 December 1942
C27_Witness ==
    /\ UtcCall /\ SofiaBefore1979
    /\ call.rule = 60
    /\ call.time = <<0, 30>>
    /\ call.date.parts = <<1943, 1, 1>>
    /\ call.result.utc_dt.date = <<1942, 12, 31>>
    /\ call.result.utc_dt.hour = 22
    /\ call.result.timezone_str = "Europe/Sofia"

\* Sofia in 1979 under the database's summer rule: UTC = local - 3 h
C27_WitnessDatabase ==
    /\ UtcCall /\ ~SofiaBefore1979
    /\ call.found[1] = "Europe/Sofia" /\ call.rule = 180
    /\ call.time = <<1, 59, 59>>
    /\ call.result.utc_dt.hour = 22

-----------------------------------------------------------------------------
(* C25 *)

\* The provider fails for a body: calc_ut raises or flags an error
ProviderFails(answer) == answer.raises \/ answer.ret_flag < 0

FailedBodies == {b \in Range(PLANETS) : ProviderFails(call.positions[b])}

\* The answers of the call with those of the failed bodies made good
Repaired ==
    [b \in Range(PLANETS) |->
       IF b \in FailedBodies THEN BasePositions[b] ELSE call.positions[b]]

\* The chart of the same call, had no body failed
ChartUnfailed ==
    calculate_chart(call.date, call.time, call.place, Repaired,
                    call.house_answer)

\* Entry i of the chart returned, against the chart had no body failed
EntryAsClaimed(i, whole) ==
    LET entry == call.result.planets[i][2]
    IN  /\ call.result.planets[i][1] = PLANETS[i]
        /\ IF PLANETS[i] \in FailedBodies
           THEN /\ entry.longitude = <<>>
                /\ entry.speed = <<>>
                /\ entry.distance = <<>>
           ELSE /\ entry = whole.planets[i][2]
                /\ entry.longitude # <<>> =>
                     /\ entry.longitude = call.positions[PLANETS[i]].xx[1]
                     /\ entry.speed = <<call.positions[PLANETS[i]].xx[4]>>
                     /\ entry.distance = <<call.positions[PLANETS[i]].xx[3]>>
                     /\ entry.house # <<>>
                     /\ entry.house[1] # <<>>
                     /\ entry.house[1][1] \in 1..12

ChartAsClaimed(whole) ==
    ~whole.raised =>
      /\ ~call.result.raised
      /\ \A i \in 1..Len(PLANETS) : EntryAsClaimed(i, whole)
      /\ call.result.houses = whole.houses
      /\ Len(call.result.houses) = 12
      /\ call.result.angles = whole.angles
      /\ call.result.angles.Ascendant = call.house_answer.ascmc[1]
      /\ call.result.angles.MC = call.house_answer.ascmc[2]

\* C25: in calculate_chart a provider failure for a body is recorded as an
\* absent longitude, speed and distance for that body only: the call
\* returns a chart, every other body has the position computed for it and
\* a house in 1..12, and the 12 cusps and the angles are those of the call
\* in which no body failed.
C25_FailedBodyAloneIsAbsent ==
    (/\ call.op = "calculate_chart"
     /\ FailedBodies # {}
     /\ Len(call.house_answer.cusps) \in {12, 13})
    => ChartAsClaimed(ChartUnfailed)

\* Mars alone fails with a negative flag: the chart has Mars absent, the
\* Sun at its longitude in house 10 and Chiron in house 9
C25_Witness ==
    /\ call.op = "calculate_chart"
    /\ FailedBodies = {"Mars"}
    /\ call.positions["Mars"].ret_flag < 0
    /\ ~call.result.raised
    /\ call.house_answer.cusps = Cusps1
    /\ call.result.planets[5] = <<"Mars", NonePlanet>>
    /\ call.result.planets[1][2].longitude = <<10004>>
    /\ call.result.planets[1][2].house = << <<10>> >>
    /\ call.result.planets[12][2].house = << <<9>> >>
    /\ Len(call.result.houses) = 12

-----------------------------------------------------------------------------
(* C29 *)

\* The chart without the bodies whose longitude is None
PresentTargets(chart) ==
    [chart EXCEPT
       !.planets = [b \in {x \in DOMAIN chart.planets :
                             chart.planets[x].longitude # <<>>} |->
                      chart.planets[b]]]

\* The TRANSIT events of day i with the given tag, in order
TransitsFor(i, target) ==
    SelectSeq(days[i].emitted,
              LAMBDA e : e.type = "TRANSIT" /\ e.target = target)

\* The TRANSIT events of day i for a chart are those of its present targets
PresentTargetsKept(i, chart, target) ==
    TransitsFor(i, target)
      = detect_transits_to_natal(sky, days[i].date, PresentTargets(chart),
                                 target)

\* C29, as claimed: a natal target that is in the chart with a longitude of
\* None yields no TRANSIT event and takes none away: the TRANSIT events of
\* every scanned day, for every transiting body, are those to the targets
\* that have a longitude.  The code raises on the None longitude inside the
\* try of the transiting body, which ends that body's loop over the targets.
C29_PartialChartTolerated ==
    pc = "done" =>
      \A i \in Scanned :
        /\ PresentTargetsKept(i, natal_chart, "User")
        /\ Truthy(partner_chart) =>
             PresentTargetsKept(i, partner_chart[1], "Partner")

-----------------------------------------------------------------------------
(* One TransitScanner used for one call of scan_period after the other.    *)
(* The calls before the last are those of the variables of the scan, begun *)
(* again once the call before has returned; the last call is held in       *)
(* `second` and begins after a call has returned.                          *)

\* The longest scan of an instance used again, in days
ReuseDays == 1

\* Mercury direct or retrograde from one day to the next; scans that begin
\* on either of two days
ReuseEnv ==
    [MercuryEnv EXCEPT
       !.dom["Mercury"] = [lon0 |-> {60200}, speed |-> {-204, 204},
                           ok |-> {TRUE}],
       !.starts = {StartDate1, AddDay(StartDate1)},
       !.lengths = 0..ReuseDays]

\* A further call on the instance, up to the first test of its while loop
ScanStartAgain(natal, start_date, end_date, partner) ==
    /\ pc = "done"
    /\ second.pc = "idle"
    /\ \E s \in Observe(sky, datetime_to_jd(SubDay(start_date))) :
         /\ sky' = s
         /\ prev_speeds' = SeedSpeeds(s, datetime_to_jd(SubDay(start_date)),
                                      prev_speeds, 1)
         /\ prev_signs' = SeedSigns(s, datetime_to_jd(SubDay(start_date)),
                                    <<>>, 1)
    /\ events' = <<>>
    /\ start_dt' = start_date
    /\ end_dt' = end_date
    /\ current_date' = start_date
    /\ natal_chart' = natal
    /\ partner_chart' = partner
    /\ days' = <<>>
    /\ pc' = "loop"
    /\ UNCHANGED <<env, second, call>>

\* The last call, up to the first test of its while loop
LastStart(natal, start_date, end_date) ==
    /\ pc = "done"
    /\ second.pc = "idle"
    /\ \E s \in Observe(sky, datetime_to_jd(SubDay(start_date))) :
         /\ sky' = s
         /\ prev_speeds' = SeedSpeeds(s, datetime_to_jd(SubDay(start_date)),
                                      prev_speeds, 1)
         /\ second' = [pc |-> "loop",
                       events |-> <<>>,
                       start_dt |-> start_date,
                       end_dt |-> end_date,
                       current_date |-> start_date,
                       natal_chart |-> natal,
                       prev_signs |->
                           SeedSigns(s, datetime_to_jd(SubDay(start_date)),
                                     <<>>, 1)]
    /\ UNCHANGED <<env, pc, prev_signs, current_date, end_dt, start_dt,
                   natal_chart, partner_chart, events, days, call>>

InitReuse == env = ReuseEnv /\ Idle

NextReuse ==
    \/ Next
    \/ \E natal \in env.charts, start_date \in env.starts,
          partner \in env.partners, n \in env.lengths :
         ScanStartAgain(natal, start_date, EndDate(start_date, n), partner)
    \/ \E natal \in env.charts, start_date \in env.starts, n \in env.lengths :
         LastStart(natal, start_date, EndDate(start_date, n))
    \/ SecondDay
    \/ SecondReturn

SpecReuse == InitReuse /\ [][NextReuse]_vars

-----------------------------------------------------------------------------
(* C30 *)

\* What a call of these dates returns on a new TransitScanner
FreshReturns(start_date, end_date, natal) ==
    SortEvents(AloneDays(sky, start_date, natal,
                         DaysBetween(start_date, end_date)).events)

\* C30: scan_period overwrites the stored previous speed of every body of
\* RETROGRADE_PLANETS before its first day, so a call that begins after
\* any number of earlier calls on the same TransitScanner have returned
\* returns the events the same call returns on a new TransitScanner.
C30_ReuseAsFresh ==
    /\ pc = "done" => events = FreshReturns(start_dt, end_dt, natal_chart)
    /\ second.pc = "done" =>
         second.events = FreshReturns(second.start_dt, second.end_dt,
                                      second.natal_chart)

\* The call before scanned the day after the last call's day and left
\* Mercury's speed of that day, of the sign of the speed on the last call's
\* day; the last call returns Mercury's station of its day.
C30_Witness ==
    /\ pc = "done"
    /\ second.pc = "done"
    /\ days # <<>>
    /\ second.start_dt = second.end_dt
    /\ DateLess(second.start_dt, end_dt)
    /\ sky[datetime_to_jd(end_dt)]["Mercury"].ok
    /\ Sign(sky[datetime_to_jd(end_dt)]["Mercury"].speed)
         = Sign(sky[datetime_to_jd(second.start_dt)]["Mercury"].speed)
    /\ \E k \in DOMAIN second.events :
         /\ second.events[k].type = "RETROGRADE"
         /\ second.events[k].planet = "Mercury"
         /\ second.events[k].date = second.start_dt

-----------------------------------------------------------------------------
(* A period scanned in two chunks: scan_period for [a, b], then, once it   *)
(* has returned, scan_period for [b + 1, c], held in `second`.             *)

\* Mercury direct or retrograde from one day to the next around the border
\* of Taurus and Gemini, every query answered
ChunkEnv ==
    [MercuryEnv EXCEPT
       !.dom["Mercury"] = [lon0 |-> {60200}, speed |-> {-204, 204},
                           ok |-> {TRUE}],
       !.lengths = 0..(MaxDays - 1)]

\* The call for the second chunk, up to the first test of its while loop
ChunkStart(end_date) ==
    /\ pc = "done"
    /\ second.pc = "idle"
    /\ \E s \in Observe(sky, datetime_to_jd(end_dt)) :
         /\ sky' = s
         /\ prev_speeds' = SeedSpeeds(s, datetime_to_jd(end_dt), prev_speeds, 1)
         /\ second' = [pc |-> "loop",
                       events |-> <<>>,
                       start_dt |-> AddDay(end_dt),
                       end_dt |-> end_date,
                       current_date |-> AddDay(end_dt),
                       natal_chart |-> natal_chart,
                       prev_signs |->
                           SeedSigns(s, datetime_to_jd(end_dt), <<>>, 1)]
    /\ UNCHANGED <<env, pc, prev_signs, current_date, end_dt, start_dt,
                   natal_chart, partner_chart, events, days, call>>

InitChunks == env = ChunkEnv /\ Idle

NextChunks ==
    \/ Next
    \/ \E n \in env.lengths : ChunkStart(EndDate(AddDay(end_dt), n))
    \/ SecondDay
    \/ SecondReturn

SpecChunks == InitChunks /\ [][NextChunks]_vars

-----------------------------------------------------------------------------
(* C28 *)

\* C28: a scan is chunkable: when the ephemeris queries do not fail, the
\* events of a scan of [a, b] followed by those of a scan of [b + 1, c],
\* each seeded from the day before its own start, are the event list of
\* one scan of [a, c].
C28_ChunksAsWhole ==
    (pc = "done" /\ second.pc = "done") =>
      events \o second.events
        = FreshReturns(start_dt, second.end_dt, natal_chart)

\* Two chunks of at least a day each, the second with an event of Mercury
\* on its first day, which its seed from the last day of the first decides
C28_Witness ==
    /\ pc = "done"
    /\ second.pc = "done"
    /\ days # <<>>
    /\ second.start_dt = AddDay(end_dt)
    /\ DateLeq(second.start_dt, second.end_dt)
    /\ \E k, l \in DOMAIN second.events :
         /\ second.events[k].type = "RETROGRADE"
         /\ second.events[k].date = second.start_dt
         /\ second.events[l].type = "INGRESS"
         /\ second.events[l].date = second.start_dt

====
